---- MODULE Spec2Model ----
(***************************************************************************)
(* Model of the graph editor: GraphCore (src/static/js/graph_core.js) and  *)
(* GraphUI (src/static/js/graph_ui.js).                                    *)
(*                                                                         *)
(* JavaScript values are records [t, v]: t is the type tag ("s" string,    *)
(* "n" number, "u" undefined, "null") and v the value's characters as a    *)
(* sequence of tokens, so that template strings are concatenations and     *)
(* === is equality of records (the number 1 and the string "1" differ).    *)
(* Colors carry a third field m, the own properties of an object color.    *)
(*                                                                         *)
(* vis.DataSet is an ordered map from id to item (vis-data 7: a Map keyed  *)
(* by the id as given, get() hands out the stored items themselves,        *)
(* update() merges into an existing item or adds a new one).  The code     *)
(* writes _originalColor on the objects get() returns and reads it back    *)
(* later, which is only meaningful under these semantics.                  *)
(***************************************************************************)
EXTENDS Integers, Sequences, FiniteSets, TLC

VARIABLES
    nodes,            \* GraphCore.nodes : the node DataSet, in insertion order
    edges,            \* GraphCore.edges : the edge DataSet, in insertion order
    hasNetwork,       \* network / nodes / edges have been constructed
    highlightedNode,  \* state.highlightedNode
    currentCacheKey,  \* currentCacheKey
    ui,               \* GraphUI._state and the menu element displayed
    bindings,         \* number of GraphUI listeners per event on the network
    container,        \* what the #mynetwork element displays
    now,              \* Date.now()
    inflight,         \* backend requests issued and not yet answered
    out,              \* outward effects of the last handler (request, alert)
    loaded,           \* the collections as the last initGraph built them
    hist,             \* the last operations and the store before the last focus
    uIn,              \* arguments of the function called on its own
    uOut,             \* results of the function called on its own
    colorCache,       \* _colorCache
    itemOpacity       \* hover variant: the opacity field of the stored items

vars == <<nodes, edges, hasNetwork, highlightedNode, currentCacheKey, ui,
          bindings, container, now, inflight, out, loaded, hist, uIn, uOut,
          colorCache, itemOpacity>>

-----------------------------------------------------------------------------
\* JavaScript values

Str(v) == [t |-> "s", v |-> v]
Num(v) == [t |-> "n", v |-> v]
Undefined == [t |-> "u", v |-> <<>>]
Null == [t |-> "null", v |-> <<>>]

\* String(x), also the text a template string interpolates
ToStr(x) ==
    IF x.t = "u" THEN <<"undefined">>
    ELSE IF x.t = "null" THEN <<"null">>
    ELSE x.v

\* the truth value of x in a condition
Truthy(x) ==
    \/ x.t = "s" /\ x.v # <<>>
    \/ x.t = "n" /\ x.v # <<"0">>
    \/ x.t = "o"

\* the property key an id becomes in an object (for ... in yields strings)
AsKey(x) == Str(ToStr(x))

IsNullish(x) == x.t \in {"u", "null"}

RECURSIVE SeqToSet(_)
SeqToSet(s) == IF s = <<>> THEN {} ELSE {Head(s)} \cup SeqToSet(Tail(s))

-----------------------------------------------------------------------------
\* Colors: a string, an object with string properties, or undefined / null

ColStr(v) == [t |-> "s", v |-> v, m |-> <<>>]
ColObj(m) == [t |-> "o", v |-> <<>>, m |-> m]
ColUndef == [t |-> "u", v |-> <<>>, m |-> <<>>]
ColNull == [t |-> "null", v |-> <<>>, m |-> <<>>]
ColNum(v) == [t |-> "n", v |-> v, m |-> <<>>]

StartsWithHash(c) == c.t = "s" /\ Len(c.v) > 0 /\ c.v[1] = "#"

HexDigits == {"0","1","2","3","4","5","6","7","8","9",
              "a","b","c","d","e","f","A","B","C","D","E","F"}

HexVal(ch) ==
    CASE ch = "0" -> 0 [] ch = "1" -> 1 [] ch = "2" -> 2 [] ch = "3" -> 3
      [] ch = "4" -> 4 [] ch = "5" -> 5 [] ch = "6" -> 6 [] ch = "7" -> 7
      [] ch = "8" -> 8 [] ch = "9" -> 9
      [] ch \in {"a", "A"} -> 10 [] ch \in {"b", "B"} -> 11
      [] ch \in {"c", "C"} -> 12 [] ch \in {"d", "D"} -> 13
      [] ch \in {"e", "E"} -> 14 [] ch \in {"f", "F"} -> 15

\* a faulty variant that reads the first digit of the pair alone; C25 does
\* not hold of it
HexPairHigh(hi, lo) ==
    IF hi \in HexDigits /\ lo \in HexDigits
    THEN ToString(16 * HexVal(hi))
    ELSE "NaN"

\* +("0x" + hi + lo) printed in a template string
HexPair(hi, lo) ==
    IF hi \in HexDigits /\ lo \in HexDigits
    THEN ToString(16 * HexVal(hi) + HexVal(lo))
    ELSE "NaN"

Rgba(r, g, b, opacity) == <<"rgba(", r, ", ", g, ", ", b, ", ", opacity, ")">>

hexToRGBA(hex, opacity) ==
    IF Len(hex) = 4
    THEN Rgba(HexPair(hex[2], hex[2]), HexPair(hex[3], hex[3]),
              HexPair(hex[4], hex[4]), opacity)
    ELSE IF Len(hex) = 7
    THEN Rgba(HexPair(hex[2], hex[3]), HexPair(hex[4], hex[5]),
              HexPair(hex[6], hex[7]), opacity)
    ELSE Rgba("0", "0", "0", opacity)

\* color.color on null is a TypeError
applyTransparencyThrows(color) == color.t = "null"

applyTransparencyToColor(color, opacity) ==
    IF StartsWithHash(color)
    THEN ColStr(hexToRGBA(color.v, opacity))
    ELSE IF color.t = "o"
    THEN ColObj([k \in DOMAIN color.m |->
                    IF StartsWithHash(color.m[k])
                    THEN Str(hexToRGBA(color.m[k].v, opacity))
                    ELSE color.m[k]])
    ELSE ColStr(Rgba("200", "200", "200", opacity))

\* JSON.parse(JSON.stringify(color)): JSON.stringify answers undefined for
\* undefined and for a function, and JSON.parse(undefined) is a SyntaxError
jsonCopyThrows(color) == color.t \in {"u", "f"}
jsonCopy(color) == color

NodeOpacity == "0.2"
EdgeOpacity == "0.1"

-----------------------------------------------------------------------------
\* Items and the DataSet

\* _originalColor absent
NoOrig == ColUndef

NodeItem(id, label, color) ==
    [id |-> id, label |-> label, color |-> color, orig |-> NoOrig]

EdgeItem(id, from, to, label, color) ==
    [id |-> id, from |-> from, to |-> to, label |-> label, color |-> color,
     orig |-> NoOrig, width |-> Undefined, arrows |-> Undefined,
     title |-> Undefined]

\* the item update() adds for an id the DataSet does not hold: {id, color}
NodeOnlyColor(id, color) == NodeItem(id, Undefined, color)
EdgeOnlyColor(id, color) == EdgeItem(id, Undefined, Undefined, Undefined, color)

DsIds(ds) == {ds[i].id : i \in DOMAIN ds}
DsHas(ds, id) == id \in DsIds(ds)
DsIndex(ds, id) == CHOOSE i \in DOMAIN ds : ds[i].id = id
DsGet(ds, id) == ds[DsIndex(ds, id)]
DsRemove(ds, ids) == SelectSeq(ds, LAMBDA it : it.id \notin ids)

\* DataSet.update({id, color}) : merge into the item, or add {id, color}
DsSetColor(ds, id, color, blank) ==
    IF DsHas(ds, id)
    THEN [ds EXCEPT ![DsIndex(ds, id)].color = color]
    ELSE Append(ds, blank)

\* get({returnType: "Object"}) : property keys in for ... in order, each
\* naming the last stored item whose id prints as the key
RECURSIVE FirstKeys(_, _)
FirstKeys(ds, seen) ==
    IF ds = <<>> THEN <<>>
    ELSE IF AsKey(Head(ds).id) \in seen THEN FirstKeys(Tail(ds), seen)
    ELSE <<AsKey(Head(ds).id)>> \o FirstKeys(Tail(ds), seen \cup {AsKey(Head(ds).id)})

ObjectKeys(ds) == FirstKeys(ds, {})

LastIndexOfKey(ds, key) ==
    CHOOSE i \in DOMAIN ds :
        /\ AsKey(ds[i].id) = key
        /\ \A j \in DOMAIN ds : AsKey(ds[j].id) = key => j <= i

-----------------------------------------------------------------------------
\* Color tables.  The category names of the source are written in ASCII:
\* renwu, didian, shijian, weizhi ("unknown"), weizhileixing ("unknown
\* type") for nodes; weiyu, daozhi, weizhiguanxi ("unknown relation") for
\* edges.

Hex6(a, b, c, d, e, f) == <<"#", a, b, c, d, e, f>>

\* a property the prototype of every object literal answers with a function
ProtoKeys == {<<"constructor">>, <<"toString">>}
ColFn == [t |-> "f", v |-> <<>>, m |-> <<>>]

NODE_COLOR_MAP(type) ==
    CASE type = <<"renwu">> -> ColStr(Hex6("F", "F", "6", "B", "6", "B"))
      [] type = <<"didian">> -> ColStr(Hex6("D", "2", "B", "4", "8", "C"))
      [] type = <<"shijian">> -> ColStr(Hex6("8", "7", "C", "E", "E", "B"))
      [] type = <<"weizhi">> -> ColStr(Hex6("C", "C", "C", "C", "C", "C"))
      [] type \in ProtoKeys -> ColFn
      [] OTHER -> ColUndef

EDGE_COLOR_MAP(type) ==
    CASE type = <<"weiyu">> -> ColStr(Hex6("A", "0", "5", "2", "2", "D"))
      [] type = <<"daozhi">> -> ColStr(Hex6("F", "F", "4", "5", "0", "0"))
      [] type \in ProtoKeys -> ColFn
      [] OTHER -> ColUndef

ColTruthy(c) == c.t \in {"o", "f"} \/ (c.t = "s" /\ c.v # <<>>)

\* _colorCache: the texts colored so far, each with its color
NoCache == [text \in {} |-> ColUndef]

\* a faulty variant that answers with a stored color whatever the text is;
\* C22 does not hold of it
cacheGetAny(cache, text) ==
    IF DOMAIN cache # {} THEN cache[CHOOSE t \in DOMAIN cache : TRUE]
    ELSE ColUndef

\* _colorCache[text]: the own property, or what the prototype of the
\* object literal answers
cacheGet(cache, text) ==
    IF text \in DOMAIN cache THEN cache[text]
    ELSE IF text \in ProtoKeys THEN ColFn
    ELSE ColUndef

\* colorHex, the value lines 74 to 123 compute for a text (simpleHash, the
\* HSL remap, the hex digits), on the texts used below; renwu and weizhi
\* stand for the two-character names of the source
colorHex(text) ==
    CASE text = <<"a">> -> ColStr(Hex6("0", "0", "0", "0", "f", "3"))
      [] text = <<"b">> -> ColStr(Hex6("0", "0", "0", "0", "f", "3"))
      [] text = <<"c">> -> ColStr(Hex6("0", "0", "0", "0", "f", "4"))
      [] text = <<"1">> -> ColStr(Hex6("0", "0", "0", "0", "e", "0"))
      [] text = <<"2">> -> ColStr(Hex6("0", "0", "0", "0", "e", "0"))
      [] text = <<"3">> -> ColStr(Hex6("0", "0", "0", "0", "e", "0"))
      [] text = <<"x">> -> ColStr(Hex6("0", "0", "0", "0", "f", "c"))
      [] text = <<"knows">> -> ColStr(Hex6("1", "9", "f", "0", "7", "b"))
      [] text = <<"weizhiguanxi">> -> ColStr(Hex6("e", "3", "f", "1", "3", "4"))
      [] text = <<>> -> ColStr(Hex6("a", "3", "2", "9", "2", "9"))
      [] text = <<"renwu">> -> ColStr(Hex6("3", "6", "f", "d", "f", "4"))
      [] text = <<"weizhi">> -> ColStr(Hex6("3", "8", "f", "9", "f", "e"))
      [] text = <<"constructor">> -> ColStr(Hex6("f", "c", "4", "6", "1", "8"))
      [] text = <<"toString">> -> ColStr(Hex6("f", "5", "9", "7", "7", "0"))
      [] text = <<"a", "b">> -> ColStr(Hex6("0", "0", "4", "f", "d", "9"))

\* a faulty variant that stores the color under the first character of the
\* text and looks it up under the text; C22 does not hold of it
generateColorKeyedByHead(cache, text) ==
    IF ColTruthy(cacheGet(cache, text))
    THEN [value |-> cacheGet(cache, text), cache |-> cache]
    ELSE LET key == IF text = <<>> THEN text ELSE <<Head(text)>>
         IN  [value |-> colorHex(text),
              cache |-> [t \in DOMAIN cache \cup {key} |->
                            IF t = key THEN colorHex(text) ELSE cache[t]]]

\* the value returned and the cache afterwards
generateColorCached(cache, text) ==
    IF ColTruthy(cacheGet(cache, text))
    THEN [value |-> cacheGet(cache, text), cache |-> cache]
    ELSE [value |-> colorHex(text),
          cache |-> [t \in DOMAIN cache \cup {text} |->
                        IF t = text THEN colorHex(text) ELSE cache[t]]]

\* the value alone: it is the same with every cache the calls can build
generateColorFromString(text) == generateColorCached(NoCache, text).value

-----------------------------------------------------------------------------
\* convertOriginalToVisFormat

RawNode(id, label, color, otype, title, type) ==
    [id |-> id, label |-> label, color |-> color, otype |-> otype,
     ptype |-> Undefined, title |-> title, type |-> type]

RawEdge(id, from, to, label, type, color) ==
    [id |-> id, from |-> from, to |-> to, label |-> label, type |-> type,
     color |-> color, width |-> Undefined, arrows |-> Undefined,
     title |-> Undefined]

hasValidNodeColor(node) ==
    \/ StartsWithHash(node.color)
    \/ /\ node.color.t = "o"
       /\ \E k \in DOMAIN node.color.m : StartsWithHash(node.color.m[k])

IsString(x) == x.t = "s"

\* title.match(/^\s*([^(\s]+)\s*\(/) on a title given as words and brackets
TitleMatch(title) ==
    IF Len(title.v) >= 2 /\ title.v[1] \notin {"(", " "} /\ title.v[2] = "("
    THEN <<title.v[1]>>
    ELSE <<>>

determineNodeType(node) ==
    IF Truthy(node.otype) /\ IsString(node.otype) THEN node.otype.v
    ELSE IF Truthy(node.ptype) /\ IsString(node.ptype) THEN node.ptype.v
    ELSE IF Truthy(node.title) /\ IsString(node.title)
    THEN (IF TitleMatch(node.title) # <<>> THEN TitleMatch(node.title)
          ELSE <<"weizhi">>)
    ELSE IF Truthy(node.type) /\ IsString(node.type) THEN node.type.v
    ELSE <<"weizhi">>

\* the color applyNodeColor assigns and the cache afterwards; label is the
\* node's label after defaulting
applyNodeColorCached(cache, node, label, nodeType) ==
    IF nodeType \in {<<"weizhileixing">>, <<"weizhi">>}
    THEN generateColorCached(cache,
             IF Truthy(label) /\ IsString(label) THEN label.v ELSE ToStr(node.id))
    ELSE IF ColTruthy(NODE_COLOR_MAP(nodeType))
    THEN [value |-> NODE_COLOR_MAP(nodeType), cache |-> cache]
    ELSE generateColorCached(cache, nodeType)

applyNodeColor(node, label, nodeType) ==
    applyNodeColorCached(NoCache, node, label, nodeType).value

ProcessNode(node) ==
    LET label == IF IsNullish(node.label) THEN Str(ToStr(node.id)) ELSE node.label
    IN  NodeItem(node.id, label,
                 IF hasValidNodeColor(node) THEN node.color
                 ELSE applyNodeColor(node, label, determineNodeType(node)))

RECURSIVE processNodes(_)
processNodes(rawNodes) ==
    IF rawNodes = <<>> THEN <<>>
    ELSE IF ~Truthy(Head(rawNodes).id) THEN processNodes(Tail(rawNodes))
    ELSE <<ProcessNode(Head(rawNodes))>> \o processNodes(Tail(rawNodes))

hasValidEdgeColor(edge) ==
    /\ ColTruthy(edge.color)
    /\ \/ StartsWithHash(edge.color)
       \/ /\ edge.color.t = "o"
          /\ "color" \in DOMAIN edge.color.m
          /\ StartsWithHash(edge.color.m["color"])

\* label is the edge's label after defaulting
determineEdgeType(edge, label) ==
    IF Truthy(edge.type) /\ IsString(edge.type) THEN edge.type.v
    ELSE IF Truthy(label) /\ IsString(label) THEN label.v
    ELSE <<"weizhiguanxi">>

applyEdgeColor(edge, edgeType) ==
    LET mapped == IF ColTruthy(EDGE_COLOR_MAP(edgeType))
                  THEN EDGE_COLOR_MAP(edgeType)
                  ELSE generateColorFromString(edgeType)
        base == IF edge.color.t = "o" THEN edge.color.m ELSE <<>>
    IN  ColObj([k \in DOMAIN base \cup {"color"} |->
                   IF k = "color" THEN [t |-> mapped.t, v |-> mapped.v]
                   ELSE base[k]])

\* the id processEdges makes up: a time stamp and a random suffix, the
\* suffix written as the edge's place in the list
SynthEdgeId(edge, index, time) ==
    Str(<<"edge_">> \o ToStr(edge.from) \o <<"_">> \o ToStr(edge.to)
        \o <<"_", ToString(time), "_", "r", ToString(index)>>)

ProcessEdge(edge, index, time) ==
    LET label == IF IsNullish(edge.label)
                 THEN (IF Truthy(edge.type) /\ IsString(edge.type)
                       THEN edge.type ELSE Str(<<>>))
                 ELSE edge.label
    IN  [id |-> IF IsNullish(edge.id) THEN SynthEdgeId(edge, index, time)
                ELSE edge.id,
         from |-> edge.from, to |-> edge.to, label |-> label,
         color |-> IF hasValidEdgeColor(edge) THEN edge.color
                   ELSE applyEdgeColor(edge, determineEdgeType(edge, label)),
         orig |-> NoOrig,
         width |-> IF IsNullish(edge.width) THEN Num(<<"2">>) ELSE edge.width,
         arrows |-> IF Truthy(edge.arrows) THEN edge.arrows ELSE Str(<<"to">>),
         title |-> edge.title]

RECURSIVE processEdgesFrom(_, _, _)
processEdgesFrom(rawEdges, index, time) ==
    IF rawEdges = <<>> THEN <<>>
    ELSE IF Head(rawEdges).from.t = "u" \/ Head(rawEdges).to.t = "u"
    THEN processEdgesFrom(Tail(rawEdges), index + 1, time)
    ELSE <<ProcessEdge(Head(rawEdges), index, time)>>
         \o processEdgesFrom(Tail(rawEdges), index + 1, time)

processEdges(rawEdges, time) == processEdgesFrom(rawEdges, 1, time)

convertOriginalToVisFormat(doc, time) ==
    [nodes |-> processNodes(doc.nodes), edges |-> processEdges(doc.edges, time)]

-----------------------------------------------------------------------------
\* convertVisToOriginalFormat

\* a faulty variant that hands the stored items over as they are; C21 does
\* not hold of it
copyVisItems(visNodes, visEdges) == [nodes |-> visNodes, edges |-> visEdges]

\* the fields the two maps copy, of those the items of the model carry
convertVisToOriginalFormat(visNodes, visEdges) ==
    [nodes |-> [i \in DOMAIN visNodes |->
                   [id |-> visNodes[i].id, label |-> visNodes[i].label,
                    color |-> visNodes[i].color]],
     edges |-> [i \in DOMAIN visEdges |->
                   [id |-> visEdges[i].id, from |-> visEdges[i].from,
                    to |-> visEdges[i].to, label |-> visEdges[i].label,
                    title |-> visEdges[i].title, color |-> visEdges[i].color,
                    width |-> visEdges[i].width, arrows |-> visEdges[i].arrows]]]

-----------------------------------------------------------------------------
\* ensureUniqueIds

Suffixed(base, counter) == Str(base \o <<"_", ToString(counter)>>)

\* a faulty variant that renames once, whether or not the new id is free;
\* C5 does not hold of it
RenameOnce(base, id, counter, seen) ==
    IF id \in seen THEN Suffixed(base, counter + 1) ELSE id

\* while (set.has(id)) id = `${base}_${++counter}`
RECURSIVE RenameWhile(_, _, _, _)
RenameWhile(base, id, counter, seen) ==
    IF id \in seen
    THEN RenameWhile(base, Suffixed(base, counter + 1), counter + 1, seen)
    ELSE id

UniqueNodeId(node, seen) == RenameWhile(ToStr(node.id), node.id, 0, seen)

EdgeBaseId(edge) ==
    IF Truthy(edge.id) THEN edge.id
    ELSE Str(<<"edge_">> \o ToStr(edge.from) \o <<"_">> \o ToStr(edge.to))

UniqueEdgeId(edge, seen) ==
    RenameWhile(ToStr(EdgeBaseId(edge)), EdgeBaseId(edge), 0, seen)

RECURSIVE UniqueNodes(_, _)
UniqueNodes(list, seen) ==
    IF list = <<>> THEN <<>>
    ELSE LET id == UniqueNodeId(Head(list), seen)
         IN  <<[Head(list) EXCEPT !.id = id]>>
             \o UniqueNodes(Tail(list), seen \cup {id})

RECURSIVE UniqueEdges(_, _)
UniqueEdges(list, seen) ==
    IF list = <<>> THEN <<>>
    ELSE LET id == UniqueEdgeId(Head(list), seen)
         IN  <<[Head(list) EXCEPT !.id = id]>>
             \o UniqueEdges(Tail(list), seen \cup {id})

ensureUniqueIds(nodeList, edgeList) ==
    [nodes |-> UniqueNodes(nodeList, {}), edges |-> UniqueEdges(edgeList, {})]

-----------------------------------------------------------------------------
\* Highlighting.  A store is [nodes, edges, hl, ui, threw]: the collections,
\* state.highlightedNode, GraphUI._state, and whether the handler running
\* on it has thrown (its remaining statements are then skipped).

hasOrigTruthy(el) == ColTruthy(el.orig)

\* One pass of the loop of updateElementsOpacity over the property keys
\* `keys`.  The result holds the DataSet with _originalColor written or
\* deleted on the stored items, the {id, color} updates collected so far,
\* and whether a statement threw.
RECURSIVE OpacityLoop(_, _, _, _, _, _, _)
OpacityLoop(ds, keys, isNode, highlightedId, connectedIds, opacity, ups) ==
    IF keys = <<>> THEN [ds |-> ds, ups |-> ups, threw |-> FALSE]
    ELSE
      LET id == Head(keys)
          i == LastIndexOfKey(ds, id)
          element == ds[i]
          isHighlighted ==
              \/ isNode /\ id = highlightedId
              \/ ~isNode /\ (element.from = highlightedId \/ element.to = highlightedId)
          isConnected == id \in connectedIds
      IN
        IF isHighlighted \/ isConnected
        THEN IF hasOrigTruthy(element)
             THEN OpacityLoop([ds EXCEPT ![i].orig = NoOrig], Tail(keys), isNode,
                              highlightedId, connectedIds, opacity,
                              Append(ups, [id |-> id, color |-> element.orig]))
             ELSE OpacityLoop(ds, Tail(keys), isNode, highlightedId, connectedIds,
                              opacity, Append(ups, [id |-> id, color |-> element.color]))
        ELSE IF ~hasOrigTruthy(element) /\ jsonCopyThrows(element.color)
        THEN [ds |-> ds, ups |-> ups, threw |-> TRUE]
        ELSE
          LET saved == IF hasOrigTruthy(element) THEN ds
                       ELSE [ds EXCEPT ![i].orig = jsonCopy(element.color)]
          IN  IF applyTransparencyThrows(element.color)
              THEN [ds |-> saved, ups |-> ups, threw |-> TRUE]
              ELSE OpacityLoop(saved, Tail(keys), isNode, highlightedId,
                               connectedIds, opacity,
                               Append(ups, [id |-> id,
                                            color |-> applyTransparencyToColor(
                                                          element.color, opacity)]))

\* nodes.update(elementsToUpdate) / edges.update(elementsToUpdate)
RECURSIVE ApplyColorUpdates(_, _, _)
ApplyColorUpdates(ds, ups, isNode) ==
    IF ups = <<>> THEN ds
    ELSE ApplyColorUpdates(
             DsSetColor(ds, Head(ups).id, Head(ups).color,
                        IF isNode THEN NodeOnlyColor(Head(ups).id, Head(ups).color)
                        ELSE EdgeOnlyColor(Head(ups).id, Head(ups).color)),
             Tail(ups), isNode)

updateElementsOpacity(ds, isNode, highlightedId, connectedIds, opacity) ==
    LET r == OpacityLoop(ds, ObjectKeys(ds), isNode, highlightedId,
                         connectedIds, opacity, <<>>)
    IN  [ds |-> IF r.threw THEN r.ds ELSE ApplyColorUpdates(r.ds, r.ups, isNode),
         threw |-> r.threw]

\* the edge the key names in get({returnType: "Object"})
EdgeOfKey(ds, key) == ds[LastIndexOfKey(ds, key)]

ConnectedEdgeKeys(ds, nodeId) ==
    {key \in SeqToSet(ObjectKeys(ds)) :
        EdgeOfKey(ds, key).from = nodeId \/ EdgeOfKey(ds, key).to = nodeId}

ConnectedNodeIds(ds, nodeId) ==
    UNION {{EdgeOfKey(ds, key).from, EdgeOfKey(ds, key).to} :
              key \in ConnectedEdgeKeys(ds, nodeId)}

highlightNodeAndConnections(S, built, nodeId) ==
    IF ~built THEN S
    ELSE
      LET n == updateElementsOpacity(S.nodes, TRUE, nodeId,
                                     ConnectedNodeIds(S.edges, nodeId), NodeOpacity)
          e == updateElementsOpacity(S.edges, FALSE, nodeId,
                                     ConnectedEdgeKeys(S.edges, nodeId), EdgeOpacity)
      IN  IF n.threw
          THEN [S EXCEPT !.hl = nodeId, !.nodes = n.ds, !.threw = TRUE]
          ELSE [S EXCEPT !.hl = nodeId, !.nodes = n.ds, !.edges = e.ds,
                         !.threw = e.threw]

\* filter(_originalColor !== undefined), restore, delete _originalColor
RestoreAll(ds) ==
    [i \in DOMAIN ds |->
        IF ds[i].orig # ColUndef
        THEN [ds[i] EXCEPT !.color = ds[i].orig, !.orig = NoOrig]
        ELSE ds[i]]

resetHighlight(S, built) ==
    IF ~built \/ ~Truthy(S.hl) THEN S
    ELSE [S EXCEPT !.hl = Null, !.nodes = RestoreAll(S.nodes),
                   !.edges = RestoreAll(S.edges)]

-----------------------------------------------------------------------------
\* initGraph: the collections built from a backend document

LoadStore(doc, time) ==
    LET visFormat == convertOriginalToVisFormat(doc, time)
    IN  ensureUniqueIds(visFormat.nodes, visFormat.edges)

-----------------------------------------------------------------------------
\* Backend documents

IdA == Str(<<"a">>)
IdB == Str(<<"b">>)
IdC == Str(<<"c">>)
Id1 == Num(<<"1">>)
Id2 == Num(<<"2">>)
Id3 == Num(<<"3">>)
IdE1 == Str(<<"e", "1">>)
IdE2 == Str(<<"e", "2">>)
IdE3 == Str(<<"e", "3">>)

Blue == ColStr(Hex6("3", "3", "6", "6", "9", "9"))
ShortBlue == ColStr(<<"#", "3", "6", "9">>)
TwoTone == ColObj("background" :> Str(Hex6("9", "7", "c", "2", "f", "c"))
                  @@ "border" :> Str(Hex6("2", "b", "7", "c", "e", "9")))

\* string ids: a -> b -> c
DocStr ==
    [nodes |-> << RawNode(IdA, Undefined, Blue, Undefined, Undefined, Undefined),
                  RawNode(IdB, Str(<<"Bob">>), ColUndef, Str(<<"renwu">>),
                          Undefined, Undefined),
                  RawNode(IdC, Undefined, ColUndef, Undefined, Undefined, Undefined) >>,
     edges |-> << RawEdge(IdE1, IdA, IdB, Undefined, Str(<<"weiyu">>), ColUndef),
                  RawEdge(IdE2, IdB, IdC, Undefined, Undefined, ShortBlue) >>]

\* numeric ids: 1 -> 2 -> 3
DocNum ==
    [nodes |-> << RawNode(Id1, Undefined, Blue, Undefined, Undefined, Undefined),
                  RawNode(Id2, Str(<<"Bob">>), ColUndef, Str(<<"renwu">>),
                          Undefined, Undefined),
                  RawNode(Id3, Undefined, ColUndef, Undefined, Undefined, Undefined) >>,
     edges |-> << RawEdge(IdE1, Id1, Id2, Undefined, Str(<<"weiyu">>), ColUndef),
                  RawEdge(IdE2, Id2, Id3, Undefined, Undefined, ShortBlue) >>]

\* a triangle a, b, c with object colors and an edge that carries no id
DocTri ==
    [nodes |-> << RawNode(IdA, Undefined, TwoTone, Undefined, Undefined, Undefined),
                  RawNode(IdB, Undefined, ColUndef, Undefined,
                          Str(<<"didian", "(", "b", ")">>), Undefined),
                  RawNode(IdC, Undefined, ColUndef, Undefined, Undefined,
                          Str(<<"shijian">>)) >>,
     edges |-> << RawEdge(IdE1, IdA, IdB, Undefined, Str(<<"daozhi">>), ColUndef),
                  RawEdge(IdE2, IdB, IdC, Str(<<"knows">>), Undefined, ColUndef),
                  RawEdge(Undefined, IdC, IdA, Undefined, Undefined, ColUndef) >>]

EmptyDoc == [nodes |-> <<>>, edges |-> <<>>]

-----------------------------------------------------------------------------
\* Initial values

\* menuShowTimer: null, or the timeout handleHold set, named by the clock
\* and the listener that set it, with the params its callback will show
NoTimer == [set |-> FALSE, at |-> 0, by |-> 0, nodes |-> <<>>, edges |-> <<>>]

UiInit ==
    [contextMenuNode |-> Null, contextMenuEdge |-> Null, addingNode |-> FALSE,
     connectingToExisting |-> FALSE, connectionSourceNode |-> Null,
     isConnectingNewNode |-> FALSE, menuShowTimer |-> NoTimer,
     isMenuVisible |-> FALSE, menuScheduledToShow |-> FALSE, shown |-> {},
     timers |-> {}]

\* no item carries an opacity field
NoOpacity == [nodes |-> [key \in {} |-> ""], edges |-> [key \in {} |-> ""]]

\* no request body
NoBody == Null
NoOut == [fetch |-> FALSE, alert |-> "none", threw |-> FALSE, body |-> NoBody]
NoHist == [op |-> "init", arg |-> Null, hlBefore |-> Null,
           prevOp |-> "init", prevArg |-> Null, prevHlBefore |-> Null,
           pre |-> EmptyDoc]

\* the requests the page sends: the cache key is the one of the page's URL
Key1 == Str(<<"k", "1">>)
Requests == {"initialLoad", "refreshLoad", "save", "delete"}
NoRequests == [r \in Requests |-> 0]
NotRun == [done |-> FALSE, nodes |-> <<>>, edges |-> <<>>]

\* the state after the scripts have run and before any document has arrived
Constructed ==
    /\ nodes = <<>>
    /\ edges = <<>>
    /\ hasNetwork = FALSE
    /\ highlightedNode = Null
    /\ currentCacheKey = Null
    /\ ui = UiInit
    /\ bindings = 0
    /\ container = "empty"
    /\ now = 1
    /\ inflight = NoRequests
    /\ out = NoOut
    /\ loaded = EmptyDoc
    /\ hist = NoHist
    /\ colorCache = NoCache
    /\ itemOpacity = NoOpacity

-----------------------------------------------------------------------------
\* ensureUniqueIds on bounded lists

MaxNodeList == 3
MaxEdgeList == 2

UNodeIds == {IdA, Str(<<"a", "_", "1">>), IdB, Id1, Str(<<"1">>)}
UEdgeIds == {Str(<<"e">>), Str(<<"e", "_", "1">>), Str(<<>>),
             Str(<<"edge_", "a", "_", "b">>)}

IdLists(ids, n) == UNION {[1..k -> ids] : k \in 0..n}

\* the label records the element's place in the argument list
NodeListOf(ids) ==
    [i \in DOMAIN ids |-> NodeItem(ids[i], Str(<<"n", ToString(i)>>), Blue)]
EdgeListOf(ids) ==
    [i \in DOMAIN ids |->
        EdgeItem(ids[i], IdA, IdB, Str(<<"e", ToString(i)>>), Blue)]

InitUnique ==
    /\ Constructed
    /\ \E ns \in IdLists(UNodeIds, MaxNodeList), es \in IdLists(UEdgeIds, MaxEdgeList) :
           uIn = [nodes |-> NodeListOf(ns), edges |-> EdgeListOf(es)]
    /\ uOut = NotRun

CallEnsureUniqueIds ==
    /\ ~uOut.done
    /\ uOut' = [done |-> TRUE,
                nodes |-> ensureUniqueIds(uIn.nodes, uIn.edges).nodes,
                edges |-> ensureUniqueIds(uIn.nodes, uIn.edges).edges]
    /\ UNCHANGED <<nodes, edges, hasNetwork, highlightedNode, currentCacheKey,
                   ui, bindings, container, now, inflight, out, loaded, hist, uIn, colorCache,
                   itemOpacity>>

NextUnique == CallEnsureUniqueIds

SpecUnique == InitUnique /\ [][NextUnique]_vars

Distinct(list) ==
    \A i, j \in DOMAIN list : i # j => list[i].id # list[j].id

SameButId(a, b) ==
    /\ Len(a) = Len(b)
    /\ \A i \in DOMAIN a : [a[i] EXCEPT !.id = Null] = [b[i] EXCEPT !.id = Null]

\* C5: ensureUniqueIds returns lists of the same lengths, the elements in
\* the same order and unchanged but for their ids, with all node ids
\* pairwise distinct and all edge ids pairwise distinct.
C5_UniqueSameLengthSameOrder ==
    uOut.done =>
        /\ SameButId(uIn.nodes, uOut.nodes)
        /\ SameButId(uIn.edges, uOut.edges)
        /\ Distinct(uOut.nodes)
        /\ Distinct(uOut.edges)

C5_Witness ==
    /\ uOut.done
    /\ Len(uIn.nodes) = 3
    /\ ~Distinct(uIn.nodes)
    /\ ~Distinct(uIn.edges)

FirstOccurrence(list, i) == \A j \in DOMAIN list : j < i => list[j].id # list[i].id

\* C6: ensureUniqueIds never renames the first occurrence of an id: the
\* first element that carries a given id in the argument list carries the
\* same id in the result.
C6_FirstOccurrenceKeepsId ==
    uOut.done =>
        \A i \in DOMAIN uIn.nodes :
            FirstOccurrence(uIn.nodes, i) => uOut.nodes[i].id = uIn.nodes[i].id

-----------------------------------------------------------------------------
\* initGraph on bounded backend documents

MaxLoadNodes == 2
MaxLoadEdges == 1

LoadNodeIds == {IdA, IdB}
\* what an edge of a document may name as an endpoint: a node of the
\* document, a node the document does not hold, or nothing
LoadEnds == {IdA, IdB, Str(<<"x">>), Undefined}

RawNodesOf(ids) ==
    [i \in DOMAIN ids |->
        RawNode(ids[i], Undefined, ColUndef, Undefined, Undefined, Undefined)]
RawEdgesOf(ends) ==
    [i \in DOMAIN ends |->
        RawEdge(Str(<<"e", ToString(i)>>), ends[i][1], ends[i][2], Undefined,
                Undefined, ColUndef)]

InitLoad ==
    /\ Constructed
    /\ \E ns \in IdLists(LoadNodeIds, MaxLoadNodes),
          es \in IdLists(LoadEnds \X LoadEnds, MaxLoadEdges) :
           uIn = [nodes |-> RawNodesOf(ns), edges |-> RawEdgesOf(es)]
    /\ uOut = NotRun

initGraph ==
    /\ ~uOut.done
    /\ \E built \in {LoadStore(uIn, now)} :
          /\ nodes' = built.nodes
          /\ edges' = built.edges
          /\ loaded' = built
          /\ uOut' = [done |-> TRUE, nodes |-> built.nodes, edges |-> built.edges]
    /\ hasNetwork' = TRUE
    /\ container' = "network"
    /\ UNCHANGED <<highlightedNode, currentCacheKey, ui, bindings, now, inflight,
                   out, hist, uIn, colorCache,
                   itemOpacity>>

NextLoad == initGraph

SpecLoad == InitLoad /\ [][NextLoad]_vars

Resolvable(ns, es) ==
    \A i \in DOMAIN es : DsHas(ns, es[i].from) /\ DsHas(ns, es[i].to)

\* C7: after a document is loaded, every edge of the store has a from and
\* a to that are ids of nodes of the store: the edges of the document that
\* name a node the document does not hold are dropped by the load.
C7_LoadedEdgesResolvable ==
    uOut.done => Resolvable(nodes, edges)

-----------------------------------------------------------------------------
\* generateColorFromString and applyNodeColor called in one process

MaxColorCalls == 3

\* the empty string, plain texts, a preset category, the category of the
\* unknown, and the name of a property every object has
ColorTexts == {<<>>, <<"a">>, <<"a", "b">>, <<"renwu">>, <<"weizhi">>,
               <<"constructor">>}

InitColor ==
    /\ Constructed
    /\ uIn = <<>>
    /\ uOut = <<>>

CallGenerateColorFromString(text) ==
    /\ Len(uIn) < MaxColorCalls
    /\ \E r \in {generateColorCached(colorCache, text)} :
          /\ colorCache' = r.cache
          /\ uOut' = Append(uOut, r.value)
    /\ uIn' = Append(uIn, [fn |-> "generateColorFromString", text |-> text])
    /\ UNCHANGED <<nodes, edges, hasNetwork, highlightedNode, currentCacheKey,
                   ui, bindings, container, now, inflight, out, loaded, hist,
                   itemOpacity>>

\* applyNodeColor on the node a, which has the label a, for a category
CallApplyNodeColor(nodeType) ==
    /\ Len(uIn) < MaxColorCalls
    /\ \E r \in {applyNodeColorCached(colorCache,
                       RawNode(IdA, Undefined, ColUndef, Undefined, Undefined,
                               Undefined),
                       Str(ToStr(IdA)), nodeType)} :
          /\ colorCache' = r.cache
          /\ uOut' = Append(uOut, r.value)
    /\ uIn' = Append(uIn, [fn |-> "applyNodeColor", text |-> nodeType])
    /\ UNCHANGED <<nodes, edges, hasNetwork, highlightedNode, currentCacheKey,
                   ui, bindings, container, now, inflight, out, loaded, hist,
                   itemOpacity>>

NextColor ==
    \/ \E text \in ColorTexts : CallGenerateColorFromString(text)
    \/ \E nodeType \in ColorTexts : CallApplyNodeColor(nodeType)

SpecColor == InitColor /\ [][NextColor]_vars

\* C22: the derivation of a color is deterministic: two calls of
\* generateColorFromString with the same string in one process return the
\* same value, whatever strings were colored in between
C22_SameTextSameColor ==
    \A i, j \in DOMAIN uIn :
        (uIn[i].fn = "generateColorFromString" /\ uIn[i] = uIn[j])
            => uOut[i] = uOut[j]

\* C22 witness: a text was colored, then another text, then the first one
\* again, which the cache then held
C22_Witness ==
    /\ Len(uIn) = 3
    /\ uIn[1].fn = "generateColorFromString"
    /\ uIn[3] = uIn[1]
    /\ uIn[2].fn = "generateColorFromString"
    /\ uIn[2].text # uIn[1].text
    /\ uIn[1].text \in DOMAIN colorCache
    /\ uIn[2].text \in DOMAIN colorCache

IsHex6(c) ==
    /\ c.t = "s"
    /\ Len(c.v) = 7
    /\ c.v[1] = "#"
    /\ \A k \in 2..7 : c.v[k] \in HexDigits

\* C23: for every category string, the empty string and the names of
\* built-in object properties included, the color assigned, from the
\* preset table or derived by the hash, is # followed by six hex digits
C23_ColorIsHex6 == \A i \in DOMAIN uOut : IsHex6(uOut[i])

-----------------------------------------------------------------------------
\* applyTransparencyToColor called on its own

HexSample == {"0", "3", "6", "9", "a", "F"}
LongHex == {<<"#", a, b, c, d, e, f>> : a \in HexSample, b \in HexSample,
                c \in HexSample, d \in HexSample, e \in HexSample,
                f \in HexSample}
ShortHex == {<<"#", a, b, c>> : a \in HexSample, b \in HexSample,
                 c \in HexSample}

\* values that are neither a hex string nor a color object: undefined,
\* null, the empty string, a color name, an rgba string, a number
OtherColors ==
    {ColUndef, ColNull, ColStr(<<>>), ColStr(<<"red">>),
     ColStr(Rgba("1", "2", "3", "0.5")), ColNum(<<"7">>), ColNum(<<"0">>)}

ObjectColors ==
    {ColObj([k \in {"background", "border"} |->
                IF k = "background" THEN Str(h) ELSE Str(<<"red">>)]) :
        h \in ShortHex}

Opacities == {NodeOpacity, EdgeOpacity}

CallNotRun == [done |-> FALSE, threw |-> FALSE, value |-> ColUndef]

InitTransparency ==
    /\ Constructed
    /\ \E color \in {ColStr(h) : h \in LongHex \cup ShortHex}
                      \cup OtherColors \cup ObjectColors,
          opacity \in Opacities :
           uIn = [color |-> color, opacity |-> opacity]
    /\ uOut = CallNotRun

CallApplyTransparencyToColor ==
    /\ ~uOut.done
    /\ uOut' = IF applyTransparencyThrows(uIn.color)
               THEN [done |-> TRUE, threw |-> TRUE, value |-> ColUndef]
               ELSE [done |-> TRUE, threw |-> FALSE,
                     value |-> applyTransparencyToColor(uIn.color, uIn.opacity)]
    /\ UNCHANGED <<nodes, edges, hasNetwork, highlightedNode, currentCacheKey,
                   ui, bindings, container, now, inflight, out, loaded, hist, uIn,
                   colorCache,
                   itemOpacity>>

NextTransparency == CallApplyTransparencyToColor

SpecTransparency == InitTransparency /\ [][NextTransparency]_vars

\* the decimal value of two hex digits, read off the place of each digit
\* in the sequence of the sixteen digits
DigitPlaces == <<{"0"}, {"1"}, {"2"}, {"3"}, {"4"}, {"5"}, {"6"}, {"7"}, {"8"},
                 {"9"}, {"a", "A"}, {"b", "B"}, {"c", "C"}, {"d", "D"},
                 {"e", "E"}, {"f", "F"}>>
DigitValue(ch) == (CHOOSE k \in DOMAIN DigitPlaces : ch \in DigitPlaces[k]) - 1
Decimal(hi, lo) == ToString(DigitValue(hi) * 16 + DigitValue(lo))

\* C25: for every long-form hex color #rrggbb and every short-form #rgb,
\* applyTransparencyToColor(color, a) returns rgba(R, G, B, a) with R, G, B
\* the decimal values of the hex pairs, each short-form digit doubled;
\* #336699 with 0.2 gives rgba(51, 102, 153, 0.2)
C25_HexToRgba ==
    uOut.done =>
        /\ uIn.color.t = "s" /\ uIn.color.v \in LongHex
              => /\ ~uOut.threw
                 /\ uOut.value =
                       ColStr(Rgba(Decimal(uIn.color.v[2], uIn.color.v[3]),
                                   Decimal(uIn.color.v[4], uIn.color.v[5]),
                                   Decimal(uIn.color.v[6], uIn.color.v[7]),
                                   uIn.opacity))
        /\ uIn.color.t = "s" /\ uIn.color.v \in ShortHex
              => /\ ~uOut.threw
                 /\ uOut.value =
                       ColStr(Rgba(Decimal(uIn.color.v[2], uIn.color.v[2]),
                                   Decimal(uIn.color.v[3], uIn.color.v[3]),
                                   Decimal(uIn.color.v[4], uIn.color.v[4]),
                                   uIn.opacity))
        /\ uIn = [color |-> ColStr(Hex6("3", "3", "6", "6", "9", "9")),
                  opacity |-> "0.2"]
              => uOut.value =
                     ColStr(<<"rgba(", "51", ", ", "102", ", ", "153", ", ",
                              "0.2", ")">>)

\* C25 witness: the function has run on #336699 with 0.2
C25_Witness ==
    /\ uOut.done
    /\ uIn = [color |-> ColStr(Hex6("3", "3", "6", "6", "9", "9")),
              opacity |-> "0.2"]
    /\ ~uOut.threw

\* C26: applyTransparencyToColor never throws: for every color that is
\* neither a hex string nor a color object (undefined, null, a string that
\* is no hex color, a number) it returns rgba(200, 200, 200, a)
C26_FallbackGray ==
    (uOut.done /\ uIn.color \in OtherColors)
        => /\ ~uOut.threw
           /\ uOut.value = ColStr(<<"rgba(", "200", ", ", "200", ", ", "200",
                                    ", ", uIn.opacity, ")">>)

-----------------------------------------------------------------------------
\* determineNodeType called on its own

\* what a field of a node may hold: nothing, the empty string, a number, a
\* category
TypeValues == {Undefined, Str(<<>>), Num(<<"7">>)}
OriginalTypes == TypeValues \cup {Str(<<"renwu">>)}
PropertiesTypes == TypeValues \cup {Str(<<"didian">>)}
TopLevelTypes == TypeValues \cup {Str(<<"shijian">>)}
\* titles: none, empty, with a parenthesized prefix, without one
Titles == {Undefined, Str(<<>>), Str(<<"didian", "(", "b", ")">>),
           Str(<<"note">>), Str(<<"(", "b", ")">>)}

InitNodeType ==
    /\ Constructed
    /\ \E otype \in OriginalTypes, ptype \in PropertiesTypes, title \in Titles,
          type \in TopLevelTypes :
           uIn = [RawNode(IdA, Undefined, ColUndef, otype, title, type)
                     EXCEPT !.ptype = ptype]
    /\ uOut = [done |-> FALSE, value |-> <<>>]

CallDetermineNodeType ==
    /\ ~uOut.done
    /\ uOut' = [done |-> TRUE, value |-> determineNodeType(uIn)]
    /\ UNCHANGED <<nodes, edges, hasNetwork, highlightedNode, currentCacheKey,
                   ui, bindings, container, now, inflight, out, loaded, hist, uIn,
                   colorCache,
                   itemOpacity>>

NextNodeType == CallDetermineNodeType

SpecNodeType == InitNodeType /\ [][NextNodeType]_vars

Yields(x) == IsString(x) /\ x.v # <<>>

\* C27: a node with no embedded original type and no nested properties
\* type takes its category from the next source that yields one: the
\* parenthesized prefix of its title when the title has one, otherwise its
\* top-level type, otherwise "unknown"; so a node whose title is a string
\* without a parenthesized prefix and whose top-level type is set gets
\* that type
C27_NextSourceInPriorityOrder ==
    (uOut.done /\ ~Yields(uIn.otype) /\ ~Yields(uIn.ptype))
        => uOut.value =
              IF IsString(uIn.title) /\ TitleMatch(uIn.title) # <<>>
              THEN TitleMatch(uIn.title)
              ELSE IF Yields(uIn.type) THEN uIn.type.v
              ELSE <<"weizhi">>

-----------------------------------------------------------------------------
\* focus and reset called directly on a loaded graph

DocsHL == {DocStr, DocNum, DocTri}

Store == [nodes |-> nodes, edges |-> edges, hl |-> highlightedNode, ui |-> ui,
          threw |-> FALSE]

InitHL ==
    /\ \E doc \in DocsHL :
          /\ nodes = LoadStore(doc, 1).nodes
          /\ edges = LoadStore(doc, 1).edges
          /\ loaded = LoadStore(doc, 1)
    /\ hasNetwork = TRUE
    /\ highlightedNode = Null
    /\ currentCacheKey = Key1
    /\ ui = UiInit
    /\ bindings = 0
    /\ container = "network"
    /\ now = 2
    /\ inflight = NoRequests
    /\ out = NoOut
    /\ hist = NoHist
    /\ uIn = EmptyDoc
    /\ uOut = NotRun
    /\ colorCache = NoCache
    /\ itemOpacity = NoOpacity

Focus(n) ==
    LET S == highlightNodeAndConnections(Store, hasNetwork, n)
    IN  /\ nodes' = S.nodes
        /\ edges' = S.edges
        /\ highlightedNode' = S.hl
        /\ hist' = [op |-> "focus", arg |-> n, hlBefore |-> highlightedNode,
                    prevOp |-> hist.op, prevArg |-> hist.arg,
                    prevHlBefore |-> hist.hlBefore,
                    pre |-> [nodes |-> nodes, edges |-> edges]]
        /\ UNCHANGED <<hasNetwork, currentCacheKey, ui, bindings, container, now,
                       inflight, out, loaded, uIn, uOut, colorCache,
                   itemOpacity>>

Reset ==
    LET S == resetHighlight(Store, hasNetwork)
    IN  /\ nodes' = S.nodes
        /\ edges' = S.edges
        /\ highlightedNode' = S.hl
        /\ hist' = [op |-> "reset", arg |-> Null, hlBefore |-> highlightedNode,
                    prevOp |-> hist.op, prevArg |-> hist.arg,
                    prevHlBefore |-> hist.hlBefore, pre |-> hist.pre]
        /\ UNCHANGED <<hasNetwork, currentCacheKey, ui, bindings, container, now,
                       inflight, out, loaded, uIn, uOut, colorCache,
                   itemOpacity>>

NextHL ==
    \/ \E n \in DsIds(loaded.nodes) : Focus(n)
    \/ Reset

SpecHL == InitHL /\ [][NextHL]_vars

\* the color of the element with this id, undefined when the collection
\* holds no such element
ColorOf(ds, id) == IF DsHas(ds, id) THEN DsGet(ds, id).color ELSE ColUndef
OrigOf(ds, id) == IF DsHas(ds, id) THEN DsGet(ds, id).orig ELSE NoOrig

SameColors(ds1, ds2) ==
    \A id \in DsIds(ds1) \cup DsIds(ds2) : ColorOf(ds1, id) = ColorOf(ds2, id)

NoShadow(ds) == \A i \in DOMAIN ds : ds[i].orig = NoOrig

\* C1: a focus on a graph with no focus active, followed at once by a
\* reset, leaves every node and every edge with the color it had before the
\* focus, and leaves no focus active.
C1_FocusResetRoundTrip ==
    (hist.op = "reset" /\ hist.prevOp = "focus" /\ hist.prevHlBefore = Null
        /\ NoShadow(hist.pre.nodes) /\ NoShadow(hist.pre.edges))
    => /\ SameColors(nodes, hist.pre.nodes)
       /\ SameColors(edges, hist.pre.edges)
       /\ highlightedNode = Null

\* an element is dimmed when the color it shows is not the color it was
\* loaded with
Dimmed(ds, ds0, id) == ColorOf(ds, id) # ColorOf(ds0, id)

\* C2: in every state reached by focus and reset calls, an element of the
\* store carries a saved original color if and only if the color it shows
\* is a dimmed one, and the saved color is the color it had before it was
\* first dimmed.
C2_ShadowIffDimmed ==
    /\ \A id \in DsIds(nodes) :
          /\ (OrigOf(nodes, id) # NoOrig) <=> Dimmed(nodes, loaded.nodes, id)
          /\ OrigOf(nodes, id) # NoOrig => OrigOf(nodes, id) = ColorOf(loaded.nodes, id)
    /\ \A id \in DsIds(edges) :
          /\ (OrigOf(edges, id) # NoOrig) <=> Dimmed(edges, loaded.edges, id)
          /\ OrigOf(edges, id) # NoOrig => OrigOf(edges, id) = ColorOf(loaded.edges, id)

Adjacent(es, a, b) ==
    \E i \in DOMAIN es : (es[i].from = a /\ es[i].to = b) \/ (es[i].from = b /\ es[i].to = a)

\* C3: after focus(n) a node shows its full color if and only if it is n or
\* one edge joins it to n, and an edge shows its full color if and only if n
\* is one of its endpoints; every other node and edge is dimmed.
C3_FocusDimsExactlyTheRest ==
    (hist.op = "focus") =>
        /\ \A id \in DsIds(loaded.nodes) :
              ~Dimmed(nodes, loaded.nodes, id)
                  <=> (id = hist.arg \/ Adjacent(loaded.edges, id, hist.arg))
        /\ \A i \in DOMAIN loaded.edges :
              ~Dimmed(edges, loaded.edges, loaded.edges[i].id)
                  <=> (loaded.edges[i].from = hist.arg \/ loaded.edges[i].to = hist.arg)
        /\ DsIds(nodes) = DsIds(loaded.nodes)
        /\ DsIds(edges) = DsIds(loaded.edges)

-----------------------------------------------------------------------------
\* GraphUI handlers, each a function from the store before to the store
\* after.  A handler that throws leaves the store as it was at the throw.

Threw(S) == [S EXCEPT !.threw = TRUE]

\* a faulty variant that hides the menus and leaves the timeout running;
\* C12 does not hold of it
hideMenusOnly(S) ==
    [S EXCEPT !.ui.shown = {}, !.ui.isMenuVisible = FALSE]

\* ui.timers are the timeouts set and neither run nor cleared; clearTimeout
\* of one that has run changes nothing
hideAllContextMenus(S) ==
    [S EXCEPT !.ui.shown = {},
              !.ui.timers = IF S.ui.menuShowTimer.set
                            THEN @ \ {S.ui.menuShowTimer} ELSE @,
              !.ui.menuShowTimer = NoTimer,
              !.ui.isMenuVisible = FALSE]

cancelMode(S) ==
    hideAllContextMenus(
        [S EXCEPT !.ui.addingNode = FALSE, !.ui.connectingToExisting = FALSE,
                  !.ui.connectionSourceNode = Null])

\* the connect-mode part of handleClick
ClickConnect(S, params, time) ==
    IF S.ui.connectingToExisting /\ Len(params.nodes) > 0
       /\ Truthy(S.ui.connectionSourceNode)
    THEN
      LET source == S.ui.connectionSourceNode
          targetNodeId == params.nodes[1]
          newEdgeId == Str(<<"edge_">> \o ToStr(source) \o <<"_">>
                           \o ToStr(targetNodeId) \o <<"_", ToString(time)>>)
      IN  IF targetNodeId # source
          THEN IF DsHas(S.edges, newEdgeId) THEN Threw(S)
               ELSE cancelMode([S EXCEPT !.edges =
                        Append(S.edges, EdgeItem(newEdgeId, source, targetNodeId,
                                                 Undefined, ColUndef))])
          ELSE cancelMode(S)
    ELSE S

\* the highlight part of handleClick
ClickHighlight(S, built, params) ==
    IF Len(params.nodes) > 0
    THEN IF S.hl = params.nodes[1]
         THEN resetHighlight(S, built)
         ELSE highlightNodeAndConnections(S, built, params.nodes[1])
    ELSE IF Len(params.edges) = 0 /\ Truthy(S.hl)
    THEN resetHighlight(S, built)
    ELSE S

ClickMenu(S, params) ==
    IF S.ui.isMenuVisible /\ Len(params.nodes) = 0 /\ Len(params.edges) = 0
    THEN hideAllContextMenus(S)
    ELSE S

handleClick(S, built, params, time) ==
    LET h == ClickHighlight(S, built, params)
    IN  IF h.threw THEN h ELSE ClickConnect(ClickMenu(h, params), params, time)

\* every listener bound to the event runs in turn; a throw ends the emit
RECURSIVE EmitClick(_, _, _, _, _)
EmitClick(S, built, params, time, listeners) ==
    IF listeners = 0 \/ S.threw THEN S
    ELSE EmitClick(handleClick(S, built, params, time), built, params, time,
                   listeners - 1)

\* nodes.get(id) answers null for an id the DataSet does not hold, and the
\* whole array for get(undefined) and get(null)
GetIsNull(ds, id) == id.t \notin {"u", "null"} /\ ~DsHas(ds, id)

\* a faulty variant that displays the node menu on top of what is displayed
showNodeMenuOnTop(S) ==
    IF Truthy(S.ui.contextMenuNode) /\ GetIsNull(S.nodes, S.ui.contextMenuNode)
    THEN Threw(S)
    ELSE [S EXCEPT !.ui.shown = @ \cup {"node"}, !.ui.isMenuVisible = TRUE]

showNodeContextMenu(S) ==
    LET h == hideAllContextMenus(S)
    IN  IF Truthy(h.ui.contextMenuNode) /\ GetIsNull(h.nodes, h.ui.contextMenuNode)
        THEN Threw(h)
        ELSE [h EXCEPT !.ui.shown = @ \cup {"node"}, !.ui.isMenuVisible = TRUE]

showEdgeContextMenu(S) ==
    LET h == hideAllContextMenus(S)
        edgeId == h.ui.contextMenuEdge
    IN  IF Truthy(edgeId)
           /\ (\/ GetIsNull(h.edges, edgeId)
               \/ GetIsNull(h.nodes, DsGet(h.edges, edgeId).from)
               \/ GetIsNull(h.nodes, DsGet(h.edges, edgeId).to))
        THEN Threw(h)
        ELSE [h EXCEPT !.ui.shown = @ \cup {"edge"}, !.ui.isMenuVisible = TRUE]

showContextMenuAtPosition(S, params) ==
    IF Len(params.nodes) > 0
    THEN LET m == [S EXCEPT !.ui.contextMenuNode = params.nodes[1]]
         IN  IF GetIsNull(m.nodes, params.nodes[1]) THEN Threw(m)
             ELSE showNodeContextMenu(m)
    ELSE IF Len(params.edges) > 0
    THEN LET m == [S EXCEPT !.ui.contextMenuEdge = params.edges[1]]
         IN  IF GetIsNull(m.edges, params.edges[1]) THEN Threw(m)
             ELSE showEdgeContextMenu(m)
    ELSE hideAllContextMenus(S)

handleContextMenu(S, params) == showContextMenuAtPosition(S, params)

RECURSIVE EmitContext(_, _, _)
EmitContext(S, params, listeners) ==
    IF listeners = 0 \/ S.threw THEN S
    ELSE EmitContext(handleContextMenu(S, params), params, listeners - 1)

\* a faulty variant that finds only the edges that leave the node; C9 does
\* not hold of it
getOutgoingEdges(es, nodeId) ==
    {es[i].id : i \in {j \in DOMAIN es : es[j].from = nodeId}}

\* network.getConnectedEdges(nodeId): the ids of the edges at the node
getConnectedEdges(es, nodeId) ==
    {es[i].id : i \in {j \in DOMAIN es : es[j].from = nodeId \/ es[j].to = nodeId}}

deleteSelectedNode(S) ==
    IF Truthy(S.ui.contextMenuNode)
    THEN hideAllContextMenus(
             [S EXCEPT !.edges = DsRemove(S.edges,
                                          getConnectedEdges(S.edges, S.ui.contextMenuNode)),
                       !.nodes = DsRemove(S.nodes, {S.ui.contextMenuNode})])
    ELSE S

connectToExistingNodeMode(S) ==
    IF Truthy(S.ui.contextMenuNode)
    THEN hideAllContextMenus(
             [S EXCEPT !.ui.connectingToExisting = TRUE,
                       !.ui.connectionSourceNode = S.ui.contextMenuNode])
    ELSE S

deleteSelectedEdge(S) ==
    IF Truthy(S.ui.contextMenuEdge)
    THEN hideAllContextMenus(
             [S EXCEPT !.edges = DsRemove(S.edges, {S.ui.contextMenuEdge})])
    ELSE S

\* a faulty variant that puts the edge back without its label
reverseEdgeWithoutLabel(S) ==
    IF Truthy(S.ui.contextMenuEdge)
    THEN IF GetIsNull(S.edges, S.ui.contextMenuEdge) THEN Threw(S)
         ELSE LET edge == DsGet(S.edges, S.ui.contextMenuEdge)
              IN  hideAllContextMenus(
                      [S EXCEPT !.edges =
                          Append(DsRemove(S.edges, {S.ui.contextMenuEdge}),
                                 EdgeItem(S.ui.contextMenuEdge, edge.to, edge.from,
                                          Undefined, ColUndef))])
    ELSE S

reverseEdgeDirection(S) ==
    IF Truthy(S.ui.contextMenuEdge)
    THEN IF GetIsNull(S.edges, S.ui.contextMenuEdge) THEN Threw(S)
         ELSE LET edge == DsGet(S.edges, S.ui.contextMenuEdge)
              IN  hideAllContextMenus(
                      [S EXCEPT !.edges =
                          Append(DsRemove(S.edges, {S.ui.contextMenuEdge}),
                                 EdgeItem(S.ui.contextMenuEdge, edge.to, edge.from,
                                          edge.label, ColUndef))])
    ELSE S

showCreateNodeInput(S) ==
    LET h == hideAllContextMenus(S)
    IN  IF Truthy(h.ui.contextMenuNode) /\ GetIsNull(h.nodes, h.ui.contextMenuNode)
        THEN Threw(h)
        ELSE [h EXCEPT !.ui.shown = @ \cup {"create"}, !.ui.isConnectingNewNode = TRUE,
                       !.ui.isMenuVisible = TRUE]

NewNodeId(time) == Str(<<"node_", ToString(time)>>)
\* the id the DataSet gives an item added without one
Uuid(time) == Str(<<"uuid", ToString(time)>>)

confirmCreateNode(S, label, time) ==
    LET done(T) == hideAllContextMenus([T EXCEPT !.ui.isConnectingNewNode = FALSE])
        newNode == NodeItem(NewNodeId(time), label, ColUndef)
    IN  IF Truthy(S.ui.contextMenuNode) /\ S.ui.isConnectingNewNode
        THEN IF ~DsHas(S.nodes, S.ui.contextMenuNode) THEN Threw(S)
             ELSE IF DsHas(S.nodes, NewNodeId(time)) THEN Threw(S)
             ELSE done([S EXCEPT !.nodes = Append(S.nodes, newNode),
                                 !.edges = Append(S.edges,
                                     EdgeItem(Uuid(time), S.ui.contextMenuNode,
                                              NewNodeId(time), Undefined, ColUndef))])
        ELSE IF S.ui.addingNode
        THEN IF DsHas(S.nodes, NewNodeId(time)) THEN Threw(S)
             ELSE done([S EXCEPT !.nodes = Append(S.nodes, newNode)])
        ELSE done(S)

\* node.label of the null that nodes.get answers for a missing id throws
\* before the input is displayed
showEditNodeLabelInput(S) ==
    IF Truthy(S.ui.contextMenuNode)
    THEN LET h == hideAllContextMenus(S)
         IN  IF GetIsNull(h.nodes, h.ui.contextMenuNode) THEN Threw(h)
             ELSE [h EXCEPT !.ui.shown = @ \cup {"editNode"},
                            !.ui.isMenuVisible = TRUE]
    ELSE S

showEditEdgeLabelInput(S) ==
    IF Truthy(S.ui.contextMenuEdge)
    THEN LET h == hideAllContextMenus(S)
             edgeId == h.ui.contextMenuEdge
         IN  IF \/ GetIsNull(h.edges, edgeId)
                \/ GetIsNull(h.nodes, DsGet(h.edges, edgeId).from)
                \/ GetIsNull(h.nodes, DsGet(h.edges, edgeId).to)
             THEN Threw(h)
             ELSE [h EXCEPT !.ui.shown = @ \cup {"editEdge"},
                            !.ui.isMenuVisible = TRUE]
    ELSE S

handleDoubleClick(S, params) ==
    IF Len(params.nodes) > 0
    THEN showEditNodeLabelInput([S EXCEPT !.ui.contextMenuNode = params.nodes[1]])
    ELSE IF Len(params.edges) > 0
    THEN showEditEdgeLabelInput([S EXCEPT !.ui.contextMenuEdge = params.edges[1]])
    ELSE S

RECURSIVE EmitDoubleClick(_, _, _)
EmitDoubleClick(S, params, listeners) ==
    IF listeners = 0 \/ S.threw THEN S
    ELSE EmitDoubleClick(handleDoubleClick(S, params), params, listeners - 1)

\* DataSet.update({id, label}): merge into the item, or add {id, label}
confirmEditNodeLabel(S, newLabel) ==
    IF Truthy(S.ui.contextMenuNode)
    THEN LET id == S.ui.contextMenuNode
         IN  hideAllContextMenus(
                 [S EXCEPT !.nodes =
                     IF DsHas(S.nodes, id)
                     THEN [S.nodes EXCEPT ![DsIndex(S.nodes, id)].label = newLabel]
                     ELSE Append(S.nodes, NodeItem(id, newLabel, ColUndef))])
    ELSE S

confirmEditEdgeLabel(S, newLabel) ==
    IF Truthy(S.ui.contextMenuEdge)
    THEN LET id == S.ui.contextMenuEdge
         IN  hideAllContextMenus(
                 [S EXCEPT !.edges =
                     IF DsHas(S.edges, id)
                     THEN [S.edges EXCEPT ![DsIndex(S.edges, id)].label = newLabel]
                     ELSE Append(S.edges, EdgeItem(id, Undefined, Undefined,
                                                   newLabel, ColUndef))])
    ELSE S

cancelInput(S) == hideAllContextMenus(S)

escapeKey(S) == cancelMode(hideAllContextMenus(S))

\* a faulty variant that sets a new timeout without clearing the one
\* before; C14 does not hold of it
holdWithoutClear(S, params, time, listener) ==
    LET timer == [set |-> TRUE, at |-> time, by |-> listener,
                  nodes |-> params.nodes, edges |-> params.edges]
    IN  [S EXCEPT !.ui.menuScheduledToShow = TRUE,
                  !.ui.menuShowTimer = timer,
                  !.ui.timers = @ \cup {timer}]

handleHold(S, params, time, listener) ==
    LET timer == [set |-> TRUE, at |-> time, by |-> listener,
                  nodes |-> params.nodes, edges |-> params.edges]
    IN  [S EXCEPT !.ui.menuScheduledToShow = TRUE,
                  !.ui.menuShowTimer = timer,
                  !.ui.timers = (IF S.ui.menuShowTimer.set
                                 THEN @ \ {S.ui.menuShowTimer} ELSE @)
                                \cup {timer}]

RECURSIVE EmitHold(_, _, _, _)
EmitHold(S, params, time, listeners) ==
    IF listeners = 0 \/ S.threw THEN S
    ELSE EmitHold(handleHold(S, params, time, listeners), params, time,
                  listeners - 1)

handleRelease(S, params) == S

\* the callback of the timeout handleHold set
holdTimeout(S, timer) ==
    LET shownS == showContextMenuAtPosition(
                      [S EXCEPT !.ui.timers = @ \ {timer}],
                      [nodes |-> timer.nodes, edges |-> timer.edges])
    IN  IF shownS.threw THEN shownS
        ELSE [shownS EXCEPT !.ui.menuScheduledToShow = FALSE]

addNodeMode(S) == [S EXCEPT !.ui.addingNode = TRUE]

documentClick(S) == IF S.ui.isMenuVisible THEN hideAllContextMenus(S) ELSE S

-----------------------------------------------------------------------------
\* The editor: the page, the backend's answers and the user's gestures

MaxNow == 7
MaxInflight == 1

DocsEditor == {DocStr}

InFlight == inflight["initialLoad"] + inflight["refreshLoad"]
            + inflight["save"] + inflight["delete"]
Issue(r) == inflight' = [inflight EXCEPT ![r] = @ + 1]
\* a faulty variant in which an answer cancels the loads still under way;
\* C20 does not hold of it
AnswerCancelsLoads(r) ==
    inflight' = [inflight EXCEPT ![r] = @ - 1, !["initialLoad"] = 0,
                                 !["refreshLoad"] = 0]
Answer(r) == inflight' = [inflight EXCEPT ![r] = @ - 1]

\* what the handler did outwards: a request sent, a message shown, an
\* exception left uncaught
Effect(fetched, message, thrown) ==
    out' = [fetch |-> fetched, alert |-> message, threw |-> thrown,
            body |-> NoBody]

\* a request sent with a body
Sent(body) ==
    out' = [fetch |-> TRUE, alert |-> "none", threw |-> FALSE, body |-> body]

Other == [NoHist EXCEPT !.op = "other"]

\* Date.now(): every event finds the clock further on than the event
\* before it did; the clock stops at MaxNow
Tick == now < MaxNow /\ now' = now + 1

\* the state after the DOMContentLoaded handler has run: with a cache_key
\* in the URL the first load is on its way, without one the container
\* displays the hint
Init ==
    /\ nodes = <<>>
    /\ edges = <<>>
    /\ hasNetwork = FALSE
    /\ highlightedNode = Null
    /\ currentCacheKey = Null
    /\ ui = UiInit
    /\ bindings = 0
    /\ now = 1
    /\ \/ container = "loading" /\ inflight = [NoRequests EXCEPT !["initialLoad"] = 1]
       \/ container = "placeholder" /\ inflight = NoRequests
    /\ out = NoOut
    /\ loaded = EmptyDoc
    /\ hist = NoHist
    /\ uIn = EmptyDoc
    /\ uOut = NotRun
    /\ colorCache = NoCache
    /\ itemOpacity = NoOpacity

\* initWithGraphData and initGraph on the document of a successful answer;
\* the listener of graphInitialized binds the handlers once, and the
\* continuation of the page's first load binds them once more
LoadSucceeds(r, doc) ==
    /\ r \in {"initialLoad", "refreshLoad"}
    /\ inflight[r] > 0
    /\ Answer(r)
    /\ currentCacheKey' = Key1
    /\ \E built \in {LoadStore(doc, now)} :
          /\ nodes' = built.nodes
          /\ edges' = built.edges
          /\ loaded' = built
    /\ hasNetwork' = TRUE
    /\ container' = "network"
    /\ bindings' = IF r = "initialLoad" THEN 2 ELSE 1
    /\ Effect(FALSE, "none", FALSE)
    /\ hist' = [Other EXCEPT !.op = "load", !.prevOp = hist.op, !.pre = loaded]
    /\ Tick
    /\ UNCHANGED <<highlightedNode, ui, uIn, uOut, colorCache,
                   itemOpacity>>

\* loadGraphData displays the error and throws again: the page's first
\* load catches it, the promise of refreshGraph is rejected with no handler
LoadFails(r) ==
    /\ r \in {"initialLoad", "refreshLoad"}
    /\ inflight[r] > 0
    /\ Answer(r)
    /\ container' = "error"
    /\ Effect(FALSE, "none", r = "refreshLoad")
    /\ hist' = Other
    /\ Tick
    /\ UNCHANGED <<nodes, edges, hasNetwork, highlightedNode, currentCacheKey,
                   ui, bindings, loaded, uIn, uOut, colorCache,
                   itemOpacity>>

refreshGraph ==
    /\ IF ~Truthy(currentCacheKey)
       THEN /\ Effect(FALSE, "noGraphToRefresh", FALSE)
            /\ UNCHANGED <<inflight, container>>
       ELSE /\ Issue("refreshLoad")
            /\ container' = "loading"
            /\ Effect(TRUE, "none", FALSE)
    /\ hist' = Other
    /\ Tick
    /\ UNCHANGED <<nodes, edges, hasNetwork, highlightedNode, currentCacheKey,
                   ui, bindings, loaded, uIn, uOut, colorCache,
                   itemOpacity>>

\* a faulty variant that lets the null key through; C10 does not hold of it
saveGraphAbortsOnUndefined(key) == key = Undefined

\* if (!currentCacheKey) { alert(...); return; }
saveGraphAborts(key) == ~Truthy(key)

saveGraph ==
    /\ IF saveGraphAborts(currentCacheKey)
       THEN /\ Effect(FALSE, "noGraphToSave", FALSE)
            /\ UNCHANGED inflight
       ELSE /\ Issue("save")
            /\ Sent(convertVisToOriginalFormat(nodes, edges))
    /\ hist' = Other
    /\ Tick
    /\ UNCHANGED <<nodes, edges, hasNetwork, highlightedNode, currentCacheKey,
                   ui, bindings, container, loaded, uIn, uOut, colorCache,
                   itemOpacity>>

SaveAnswered(ok) ==
    /\ inflight["save"] > 0
    /\ Answer("save")
    /\ Effect(FALSE, IF ok THEN "saved" ELSE "saveFailed", FALSE)
    /\ hist' = Other
    /\ Tick
    /\ UNCHANGED <<nodes, edges, hasNetwork, highlightedNode, currentCacheKey,
                   ui, bindings, container, loaded, uIn, uOut, colorCache,
                   itemOpacity>>

deleteGraph(confirmed) ==
    /\ IF ~Truthy(currentCacheKey)
       THEN /\ Effect(FALSE, "noGraphToDelete", FALSE)
            /\ UNCHANGED inflight
       ELSE IF ~confirmed
       THEN /\ Effect(FALSE, "deleteDeclined", FALSE)
            /\ UNCHANGED inflight
       ELSE /\ Issue("delete")
            /\ Effect(TRUE, "deleteConfirmed", FALSE)
    /\ hist' = Other
    /\ Tick
    /\ UNCHANGED <<nodes, edges, hasNetwork, highlightedNode, currentCacheKey,
                   ui, bindings, container, loaded, uIn, uOut, colorCache,
                   itemOpacity>>

\* a faulty variant that keeps the active key; C18 does not hold of it
DeleteKeepsKey ==
    /\ inflight["delete"] > 0
    /\ Answer("delete")
    /\ nodes' = <<>>
    /\ edges' = <<>>
    /\ Effect(FALSE, "deleted", FALSE)
    /\ hist' = Other
    /\ Tick
    /\ UNCHANGED <<hasNetwork, highlightedNode, currentCacheKey, ui, bindings,
                   container, loaded, uIn, uOut, colorCache,
                   itemOpacity>>

DeleteSucceeds ==
    /\ inflight["delete"] > 0
    /\ Answer("delete")
    /\ nodes' = <<>>
    /\ edges' = <<>>
    /\ currentCacheKey' = Null
    /\ Effect(FALSE, "deleted", FALSE)
    /\ hist' = Other
    /\ Tick
    /\ UNCHANGED <<hasNetwork, highlightedNode, ui, bindings, container,
                   loaded, uIn, uOut, colorCache,
                   itemOpacity>>

DeleteFails ==
    /\ inflight["delete"] > 0
    /\ Answer("delete")
    /\ Effect(FALSE, "deleteFailed", FALSE)
    /\ hist' = Other
    /\ Tick
    /\ UNCHANGED <<nodes, edges, hasNetwork, highlightedNode, currentCacheKey,
                   ui, bindings, container, loaded, uIn, uOut, colorCache,
                   itemOpacity>>

\* the backend's answer: the HTTP status is a success or not, and the body
\* says success or not
Answers == [httpOk : BOOLEAN, success : BOOLEAN]

\* a faulty variant that looks at the HTTP status alone; C16 does not hold
\* of it
answerAcceptedOnStatus(a) == a.httpOk

\* response.ok && result.success
answerAccepted(a) == a.httpOk /\ a.success

LoadAnswered(r, a, doc) ==
    IF answerAccepted(a) THEN LoadSucceeds(r, doc) ELSE LoadFails(r)

DeleteAnswered(a) ==
    IF answerAccepted(a) THEN DeleteSucceeds ELSE DeleteFails

\* a faulty variant that clears whatever the user answers; C17 does not
\* hold of it
clearGraphUnasked(confirmed) ==
    /\ nodes' = <<>>
    /\ edges' = <<>>
    /\ highlightedNode' = Null
    /\ Effect(FALSE, IF confirmed THEN "clearConfirmed" ELSE "clearDeclined", FALSE)
    /\ hist' = Other
    /\ Tick
    /\ UNCHANGED <<hasNetwork, currentCacheKey, ui, bindings, container, inflight,
                   loaded, uIn, uOut, colorCache,
                   itemOpacity>>

\* a faulty variant that forgets the active key as deleteGraph does; C19
\* does not hold of it
clearGraphForgetsKey(confirmed) ==
    /\ IF confirmed
       THEN /\ nodes' = <<>>
            /\ edges' = <<>>
            /\ highlightedNode' = Null
            /\ currentCacheKey' = Null
       ELSE UNCHANGED <<nodes, edges, highlightedNode, currentCacheKey>>
    /\ Effect(FALSE, IF confirmed THEN "clearConfirmed" ELSE "clearDeclined", FALSE)
    /\ hist' = Other
    /\ Tick
    /\ UNCHANGED <<hasNetwork, ui, bindings, container, inflight,
                   loaded, uIn, uOut, colorCache,
                   itemOpacity>>

\* confirm(...) and, on yes, the two collections cleared and the focus
\* forgotten; the collections are the ones of the last load
clearGraph(confirmed) ==
    /\ IF confirmed
       THEN /\ nodes' = <<>>
            /\ edges' = <<>>
            /\ highlightedNode' = Null
       ELSE UNCHANGED <<nodes, edges, highlightedNode>>
    /\ Effect(FALSE, IF confirmed THEN "clearConfirmed" ELSE "clearDeclined", FALSE)
    /\ hist' = Other
    /\ Tick
    /\ UNCHANGED <<hasNetwork, currentCacheKey, ui, bindings, container, inflight,
                   loaded, uIn, uOut, colorCache,
                   itemOpacity>>

\* what the renderer reports for a gesture: on a node, on an edge, or on
\* the empty canvas
OnNode(n) == [nodes |-> <<n>>, edges |-> <<>>]
OnEdge(e) == [nodes |-> <<>>, edges |-> <<e>>]
OnCanvas == [nodes |-> <<>>, edges |-> <<>>]
Gestures ==
    {OnNode(n) : n \in DsIds(nodes)} \cup {OnEdge(e) : e \in DsIds(edges)}
        \cup {OnCanvas}

\* the renderer draws in the container; it reports gestures only while the
\* container displays it
RendererLive == container = "network" /\ bindings > 0

Install(S) ==
    /\ nodes' = S.nodes
    /\ edges' = S.edges
    /\ highlightedNode' = S.hl
    /\ ui' = S.ui

\* the click on a node, and the click before it when that was the event
\* before and on the same node
ClickHist(params) ==
    IF Len(params.nodes) = 0 THEN Other
    ELSE IF hist.op = "click" /\ hist.arg = params.nodes[1]
    THEN [op |-> "click", arg |-> params.nodes[1], hlBefore |-> highlightedNode,
          prevOp |-> "click", prevArg |-> params.nodes[1],
          prevHlBefore |-> hist.hlBefore, pre |-> EmptyDoc]
    ELSE [Other EXCEPT !.op = "click", !.arg = params.nodes[1],
                       !.hlBefore = highlightedNode]

Click(params) ==
    /\ RendererLive
    /\ \E S \in {EmitClick(Store, hasNetwork, params, now, bindings)} :
          /\ Install(S)
          /\ Effect(FALSE, "none", S.threw)
    /\ Tick
    /\ hist' = ClickHist(params)
    /\ UNCHANGED <<hasNetwork, currentCacheKey, bindings, container, inflight,
                   loaded, uIn, uOut, colorCache,
                   itemOpacity>>

\* a handler of GraphUI other than the click handler; the event is
\* remembered under the name op, with the name of the event before it
GestureAs(after, op) ==
    /\ \E S \in {after} :
          /\ Install(S)
          /\ Effect(FALSE, "none", S.threw)
    /\ Tick
    /\ hist' = [Other EXCEPT !.op = op, !.prevOp = hist.op]
    /\ UNCHANGED <<hasNetwork, currentCacheKey, bindings, container, inflight,
                   loaded, uIn, uOut, colorCache,
                   itemOpacity>>

Gesture(after) ==
    /\ \E S \in {after} :
          /\ Install(S)
          /\ Effect(FALSE, "none", S.threw)
    /\ Tick
    /\ hist' = Other
    /\ UNCHANGED <<hasNetwork, currentCacheKey, bindings, container, inflight,
                   loaded, uIn, uOut, colorCache,
                   itemOpacity>>

ContextMenu(params) ==
    /\ RendererLive
    /\ Gesture(EmitContext(Store, params, bindings))

DocumentClick ==
    /\ Gesture(documentClick(Store))

\* the text of the input, or the default of an empty input
EditLabels == {Str(<<"gaiming">>)}

Escape ==
    /\ GestureAs(escapeKey(Store), "escape")

Hold(params) ==
    /\ RendererLive
    /\ GestureAs(EmitHold(Store, params, now, bindings), "hold")

Release ==
    /\ RendererLive
    /\ GestureAs(handleRelease(Store, OnCanvas), "release")

DoubleClick(params) ==
    /\ RendererLive
    /\ GestureAs(EmitDoubleClick(Store, params, bindings), "doubleClick")

ConfirmEditNodeLabel ==
    /\ "editNode" \in ui.shown
    /\ \E label \in EditLabels : Gesture(confirmEditNodeLabel(Store, label))

ConfirmEditEdgeLabel ==
    /\ "editEdge" \in ui.shown
    /\ \E label \in EditLabels : Gesture(confirmEditEdgeLabel(Store, label))

\* a timeout that is still set runs its callback
TimerFires(timer) ==
    /\ timer \in ui.timers
    /\ GestureAs(holdTimeout(Store, timer), "timeout")

AddNodeMode == GestureAs(addNodeMode(Store), "addNodeMode")

\* the entries of a menu can be chosen while the menu is displayed
DeleteSelectedNode ==
    /\ "node" \in ui.shown
    /\ Gesture(deleteSelectedNode(Store))

ConnectToExistingNodeMode ==
    /\ "node" \in ui.shown
    /\ Gesture(connectToExistingNodeMode(Store))

ShowCreateNodeInput ==
    /\ "node" \in ui.shown
    /\ Gesture(showCreateNodeInput(Store))

DeleteSelectedEdge ==
    /\ "edge" \in ui.shown
    /\ Gesture(deleteSelectedEdge(Store))

ReverseEdgeDirection ==
    /\ "edge" \in ui.shown
    /\ Gesture(reverseEdgeDirection(Store))

NewLabels == {Str(<<"xinjiedian">>)}

ConfirmCreateNode ==
    /\ "create" \in ui.shown
    /\ \E label \in NewLabels :
          Gesture(confirmCreateNode(Store, label, now))

CancelInput ==
    /\ "create" \in ui.shown
    /\ Gesture(cancelInput(Store))

\* the editor: the backend and the gestures on the displayed document, with
\* at most MaxInflight requests under way
Next ==
    \/ \E r \in Requests, a \in Answers, doc \in DocsEditor : LoadAnswered(r, a, doc)
    \/ refreshGraph /\ InFlight' <= MaxInflight
    \/ saveGraph /\ InFlight' <= MaxInflight
    \/ \E a \in Answers : SaveAnswered(answerAccepted(a))
    \/ \E confirmed \in BOOLEAN : deleteGraph(confirmed) /\ InFlight' <= MaxInflight
    \/ \E a \in Answers : DeleteAnswered(a)
    \/ \E params \in Gestures : Click(params)
    \/ \E params \in Gestures : ContextMenu(params)
    \/ DocumentClick
    \/ Escape
    \/ DeleteSelectedNode
    \/ ConnectToExistingNodeMode
    \/ ShowCreateNodeInput
    \/ DeleteSelectedEdge
    \/ ReverseEdgeDirection
    \/ ConfirmCreateNode
    \/ CancelInput

Spec == Init /\ [][Next]_vars

-----------------------------------------------------------------------------
\* The menus, the modes and the hold timer on a displayed document

MaxMenuNow == 5

\* the page displays its first document: the handlers are bound twice, and
\* once after a refresh
InitMenu ==
    /\ \E built \in {LoadStore(DocStr, 1)} :
          /\ nodes = built.nodes
          /\ edges = built.edges
          /\ loaded = built
    /\ hasNetwork = TRUE
    /\ highlightedNode = Null
    /\ currentCacheKey = Key1
    /\ ui = UiInit
    /\ bindings \in {1, 2}
    /\ container = "network"
    /\ now = 2
    /\ inflight = NoRequests
    /\ out = NoOut
    /\ hist = Other
    /\ uIn = EmptyDoc
    /\ uOut = NotRun
    /\ colorCache = NoCache
    /\ itemOpacity = NoOpacity

MenuTime == now < MaxMenuNow

NextMenu ==
    \/ MenuTime /\ \E params \in Gestures : Click(params)
    \/ MenuTime /\ \E params \in Gestures : ContextMenu(params)
    \/ MenuTime /\ \E params \in Gestures : Hold(params)
    \/ MenuTime /\ Release
    \/ MenuTime /\ \E timer \in ui.timers : TimerFires(timer)
    \/ MenuTime /\ DocumentClick
    \/ MenuTime /\ Escape
    \/ MenuTime /\ AddNodeMode
    \/ MenuTime /\ ConnectToExistingNodeMode
    \/ MenuTime /\ \E params \in Gestures : DoubleClick(params)
    \/ MenuTime /\ ConfirmEditNodeLabel
    \/ MenuTime /\ ConfirmEditEdgeLabel
    \/ MenuTime /\ ShowCreateNodeInput
    \/ MenuTime /\ CancelInput

SpecMenu == InitMenu /\ [][NextMenu]_vars

-----------------------------------------------------------------------------
\* The backend and the buttons of the panel, with several requests under way

MaxBackendInflight == 2

DocsBackend == {DocStr, DocTri}

NextBackend ==
    \/ \E r \in Requests, a \in Answers, doc \in DocsBackend : LoadAnswered(r, a, doc)
    \/ refreshGraph /\ InFlight' <= MaxBackendInflight
    \/ saveGraph /\ InFlight' <= MaxBackendInflight
    \/ \E a \in Answers : SaveAnswered(answerAccepted(a))
    \/ \E confirmed \in BOOLEAN : deleteGraph(confirmed) /\ InFlight' <= MaxBackendInflight
    \/ \E a \in Answers : DeleteAnswered(a)
    \/ \E confirmed \in BOOLEAN : clearGraph(confirmed)
    \/ \E n \in DsIds(nodes) : Click(OnNode(n))

SpecBackend == Init /\ [][NextBackend]_vars

-----------------------------------------------------------------------------
\* The hover-enabled variant of GraphUI: the focus is kept by GraphUI itself
\* and written into the opacity field of the stored items

MaxHoverNow == 6

StoreV == [nodes |-> nodes, edges |-> edges, hl |-> highlightedNode, ui |-> ui,
           threw |-> FALSE, opacity |-> itemOpacity]

\* the node itself and the other end of every edge at the node
uiConnectedNodes(es, nodeId) ==
    {nodeId}
        \cup {es[i].to : i \in {j \in DOMAIN es :
                   es[j].id \in getConnectedEdges(es, nodeId) /\ es[j].from = nodeId}}
        \cup {es[i].from : i \in {j \in DOMAIN es :
                   es[j].id \in getConnectedEdges(es, nodeId) /\ es[j].to = nodeId}}

\* update([{id: key, opacity}]) : an item is added for a key that is the
\* id of no stored item
RECURSIVE AddMissingItems(_, _, _)
AddMissingItems(ds, keys, isNode) ==
    IF keys = <<>> THEN ds
    ELSE AddMissingItems(
             IF DsHas(ds, Head(keys)) THEN ds
             ELSE Append(ds, IF isNode THEN NodeOnlyColor(Head(keys), ColUndef)
                             ELSE EdgeOnlyColor(Head(keys), ColUndef)),
             Tail(keys), isNode)

\* the opacity fields after update() has written values[key] for every key
WriteOpacity(fields, values) ==
    [key \in DOMAIN fields \cup DOMAIN values |->
        IF key \in DOMAIN values THEN values[key] ELSE fields[key]]

uiHighlightNodeAndConnections(S, built, nodeId) ==
    IF ~built THEN S
    ELSE
      LET connectedNodes == uiConnectedNodes(S.edges, nodeId)
          updatedNodes ==
              [key \in SeqToSet(ObjectKeys(S.nodes)) |->
                  IF key \in connectedNodes THEN "1.0" ELSE "0.2"]
          updatedEdges ==
              [key \in SeqToSet(ObjectKeys(S.edges)) |->
                  IF \/ EdgeOfKey(S.edges, key).from = nodeId
                     \/ EdgeOfKey(S.edges, key).to = nodeId
                  THEN "1.0" ELSE "0.1"]
      IN  [S EXCEPT
             !.opacity = [nodes |-> WriteOpacity(@.nodes, updatedNodes),
                          edges |-> WriteOpacity(@.edges, updatedEdges)],
             !.nodes = AddMissingItems(@, ObjectKeys(S.nodes), TRUE),
             !.edges = AddMissingItems(@, ObjectKeys(S.edges), FALSE),
             !.hl = nodeId]

uiResetHighlight(S) ==
    IF ~Truthy(S.hl) THEN S
    ELSE [S EXCEPT
            !.opacity =
                [nodes |-> WriteOpacity(@.nodes,
                               [key \in {AsKey(id) : id \in DsIds(S.nodes)} |-> "1.0"]),
                 edges |-> WriteOpacity(@.edges,
                               [key \in {AsKey(id) : id \in DsIds(S.edges)} |-> "1.0"])],
            !.hl = Null]

uiHandleClick(S, built, params, time) ==
    LET h == IF Len(params.nodes) > 0
             THEN IF S.hl = params.nodes[1]
                  THEN uiResetHighlight(S)
                  ELSE uiHighlightNodeAndConnections(S, built, params.nodes[1])
             ELSE IF Len(params.edges) = 0 /\ Truthy(S.hl)
             THEN uiResetHighlight(S)
             ELSE S
    IN  ClickConnect(ClickMenu(h, params), params, time)

RECURSIVE uiEmitClick(_, _, _, _, _)
uiEmitClick(S, built, params, time, listeners) ==
    IF listeners = 0 \/ S.threw THEN S
    ELSE uiEmitClick(uiHandleClick(S, built, params, time), built, params, time,
                     listeners - 1)

\* the listeners bindNetworkVisualEvents binds to hoverNode and blurNode
hoverNode(S, built, node) ==
    IF ~Truthy(S.hl) THEN uiHighlightNodeAndConnections(S, built, node) ELSE S

blurNode(S) == IF Truthy(S.hl) THEN uiResetHighlight(S) ELSE S

\* the event, its node, and the event that set the focus that is active
HoverHist(op, arg, focusBy) == [op |-> op, arg |-> arg, focusBy |-> focusBy]

InitHover ==
    /\ \E built \in {LoadStore(DocStr, 1)} :
          /\ nodes = built.nodes
          /\ edges = built.edges
          /\ loaded = built
    /\ hasNetwork = TRUE
    /\ highlightedNode = Null
    /\ currentCacheKey = Key1
    /\ ui = UiInit
    /\ bindings \in {1, 2}
    /\ container = "network"
    /\ now = 2
    /\ inflight = NoRequests
    /\ out = NoOut
    /\ hist = HoverHist("init", Null, "none")
    /\ uIn = EmptyDoc
    /\ uOut = NotRun
    /\ colorCache = NoCache
    /\ itemOpacity = NoOpacity

InstallV(S, op, arg, focusBy) ==
    /\ nodes' = S.nodes
    /\ edges' = S.edges
    /\ highlightedNode' = S.hl
    /\ ui' = S.ui
    /\ itemOpacity' = S.opacity
    /\ Effect(FALSE, "none", S.threw)
    /\ hist' = HoverHist(op, arg, IF S.hl = Null THEN "none" ELSE focusBy)
    /\ now < MaxHoverNow
    /\ now' = now + 1
    /\ UNCHANGED <<hasNetwork, currentCacheKey, bindings, container, inflight,
                   loaded, uIn, uOut, colorCache>>

ClickV(params) ==
    /\ RendererLive
    /\ InstallV(uiEmitClick(StoreV, hasNetwork, params, now, bindings), "click",
                IF Len(params.nodes) > 0 THEN params.nodes[1] ELSE Null,
                IF Len(params.nodes) > 0 THEN "click" ELSE hist.focusBy)

HoverNode(n) ==
    /\ RendererLive
    /\ InstallV(hoverNode(StoreV, hasNetwork, n), "hover", n,
                IF highlightedNode = Null THEN "hover" ELSE hist.focusBy)

BlurNode ==
    /\ RendererLive
    /\ InstallV(blurNode(StoreV), "blur", Null, hist.focusBy)

NextHover ==
    \/ \E params \in Gestures : ClickV(params)
    \/ \E n \in DsIds(nodes) : HoverNode(n)
    \/ BlurNode

SpecHover == InitHover /\ [][NextHover]_vars

-----------------------------------------------------------------------------
\* Properties of the editor

Translucent(c) ==
    \/ c.t = "s" /\ c.v # <<>> /\ c.v[1] = "rgba("
    \/ c.t = "o" /\ \E k \in DOMAIN c.m : c.m[k].v # <<>> /\ c.m[k].v[1] = "rgba("

NothingDimmed ==
    /\ \A i \in DOMAIN nodes : ~Translucent(nodes[i].color) /\ nodes[i].orig = NoOrig
    /\ \A i \in DOMAIN edges : ~Translucent(edges[i].color) /\ edges[i].orig = NoOrig

\* C4: from a state with no focus, two click events in a row on the same
\* node end with no focus id set and no element dimmed; and a click on a
\* node that is not the focus makes that node the focus.
C4_ClickTogglesFocus ==
    /\ (hist.op = "click" /\ hist.prevOp = "click" /\ hist.prevHlBefore = Null)
          => (highlightedNode = Null /\ NothingDimmed)
    /\ (hist.op = "click" /\ hist.hlBefore # hist.arg)
          => highlightedNode = hist.arg

\* C8: after any sequence of editor operations on a loaded graph, every
\* edge of the store has both endpoints among the nodes of the store, and
\* the node ids and the edge ids are pairwise distinct; a click in connect
\* mode never adds an edge from a node that has been deleted.
C8_EditsKeepEdgesResolvable ==
    /\ Resolvable(nodes, edges)
    /\ Distinct(nodes)
    /\ Distinct(edges)

SameItems(ds1, ds0, ids) ==
    /\ DsIds(ds1) = ids
    /\ \A id \in ids : DsGet(ds1, id) = DsGet(ds0, id)
    /\ \A i, j \in DOMAIN ds1 :
          i < j => DsIndex(ds0, ds1[i].id) < DsIndex(ds0, ds1[j].id)

C10_SaveWithoutKeyDoesNothing ==
    [][(saveGraph /\ ~Truthy(currentCacheKey))
          => /\ ~out'.fetch
             /\ out'.alert = "noGraphToSave"
             /\ UNCHANGED <<nodes, edges, hasNetwork, highlightedNode,
                            currentCacheKey, ui, bindings, container, inflight,
                            loaded, colorCache,
                   itemOpacity>>]_vars

\* saveGraph has shown its message on a page whose graph has been deleted
C10_Witness ==
    /\ out.alert = "noGraphToSave"
    /\ ~Truthy(currentCacheKey)
    /\ hasNetwork
    /\ nodes = <<>>

-----------------------------------------------------------------------------
\* Properties of the menus, the modes and the hold timer

\* C11: exactly one interaction mode is active at a time: the add-node flag
\* and the connect-to-existing flag are never both set, in whatever order
\* addNodeMode, connectToExistingNodeMode, clicks, menu actions and Escape
\* occur
C11_OneModeAtATime == ~(ui.addingNode /\ ui.connectingToExisting)

\* C12: Escape leaves no menu displayed and the mode idle (add-node off,
\* connect off, source cleared), and it cancels the pending hold timer, so
\* that no timeout is left to display a menu later
C12_EscapeResetsAll ==
    hist.op = "escape" =>
        /\ ui.shown = {}
        /\ ~ui.isMenuVisible
        /\ ~ui.addingNode
        /\ ~ui.connectingToExisting
        /\ ui.connectionSourceNode = Null
        /\ ui.timers = {}
        /\ ~ui.menuShowTimer.set
        /\ ~ENABLED (\E timer \in ui.timers : TimerFires(timer))

\* C12 witness: Escape was pressed right after a hold, whose timeout had
\* not run yet
C12_Witness == hist.op = "escape" /\ hist.prevOp = "hold"

\* C13: a release after a hold and before the timeout has run cancels the
\* pending display of the menu
C13_ReleaseCancelsPendingMenu ==
    hist.op = "release" /\ hist.prevOp = "hold" => ui.timers = {}

\* C14: at most one hold timer is pending, and it is the one of the latest
\* hold: a hold before the earlier timeout has run cancels that timeout, so
\* that one display follows, for the params of the later hold
C14_OneTimerOfLatestHold ==
    /\ Cardinality(ui.timers) <= 1
    /\ ui.timers \subseteq {ui.menuShowTimer}
    /\ hist.op = "hold" => ui.timers = {ui.menuShowTimer}

\* C14 witness: a hold followed a hold whose timeout had not run, and the
\* timer that is pending was set by the later one
C14_Witness ==
    /\ hist.op = "hold"
    /\ hist.prevOp = "hold"
    /\ \E timer \in ui.timers : timer.at = now - 1 /\ timer.at > 2


\* C15: in connect mode with source s, a click on a node t adds exactly one
\* edge, from s to t, when t is not s, and adds none when t is s; in both
\* cases the mode is idle afterwards and the menus are dismissed; the edge
\* added never has the same node at both ends
C15_ConnectClick ==
    [][\A t \in DsIds(nodes) :
          (/\ Click(OnNode(t))
           /\ ui.connectingToExisting
           /\ Truthy(ui.connectionSourceNode))
          => /\ IF t # ui.connectionSourceNode
                THEN /\ Len(edges') = Len(edges) + 1
                     /\ \E e \in DsIds(edges') \ DsIds(edges) :
                           /\ DsIds(edges') = DsIds(edges) \cup {e}
                           /\ DsGet(edges', e).from = ui.connectionSourceNode
                           /\ DsGet(edges', e).to = t
                ELSE /\ Len(edges') = Len(edges)
                     /\ DsIds(edges') = DsIds(edges)
             /\ ~ui'.connectingToExisting
             /\ ~ui'.addingNode
             /\ ui'.connectionSourceNode = Null
             /\ ui'.shown = {}
             /\ ~ui'.isMenuVisible
             /\ \A i \in DOMAIN edges' :
                   edges'[i].id \notin DsIds(edges) => edges'[i].from # edges'[i].to]_vars


-----------------------------------------------------------------------------
\* Properties of the backend operations

Failure(a) == ~a.httpOk \/ ~a.success

\* C16: when the backend answers loadGraphData, refreshGraph, saveGraph or
\* deleteGraph with a failure (an HTTP error, or a body with success false),
\* the operation is aborted: the node collection, the edge collection and
\* the active cache key are unchanged
C16_FailureChangesNothing ==
    [][\A a \in Answers :
          (/\ Failure(a)
           /\ \/ \E r \in Requests, doc \in DocsBackend : LoadAnswered(r, a, doc)
              \/ SaveAnswered(answerAccepted(a))
              \/ DeleteAnswered(a))
          => UNCHANGED <<nodes, edges, currentCacheKey>>]_vars

\* C16 witness: on a displayed graph a refresh has failed, and then a
\* delete has failed; the graph is still in the collections
C16_Witness ==
    /\ container = "error"
    /\ out.alert = "deleteFailed"
    /\ Len(nodes) > 0
    /\ Len(edges) > 0
    /\ Truthy(currentCacheKey)

\* C17: deleteGraph and clearGraph do nothing when the user declines the
\* confirmation: no request is sent, and the collections, the active key
\* and the focus are unchanged
C17_DeclinedDoesNothing ==
    [][(deleteGraph(FALSE) \/ clearGraph(FALSE))
          => /\ UNCHANGED <<nodes, edges, currentCacheKey, highlightedNode,
                            inflight>>
             /\ ~out'.fetch]_vars

\* C17 witness: the clearing of a displayed graph with a focus has been
\* declined
C17_Witness ==
    /\ out.alert = "clearDeclined"
    /\ Len(nodes) > 0
    /\ Truthy(highlightedNode)
    /\ Truthy(currentCacheKey)

\* C18: deleteGraph sends the delete request only after the confirmation;
\* when the backend reports success the two collections are empty and the
\* active key is null, so that a saveGraph or refreshGraph that follows
\* sends no request
C18_DeleteAfterConfirmation ==
    [][/\ deleteGraph(FALSE) => UNCHANGED inflight /\ ~out'.fetch
       /\ (\E confirmed \in BOOLEAN : deleteGraph(confirmed)) /\ out'.fetch
             => /\ out'.alert = "deleteConfirmed"
                /\ inflight' = [inflight EXCEPT !["delete"] = @ + 1]
       /\ (\E a \in Answers : ~Failure(a) /\ DeleteAnswered(a))
             => /\ nodes' = <<>>
                /\ edges' = <<>>
                /\ currentCacheKey' = Null
       /\ out.alert = "deleted" /\ (saveGraph \/ refreshGraph)
             => UNCHANGED inflight /\ ~out'.fetch]_vars

\* C18 witness: a graph was displayed and deleted, and the saveGraph that
\* followed has sent nothing
C18_Witness ==
    /\ out.alert = "noGraphToSave"
    /\ ~out.fetch
    /\ hasNetwork
    /\ currentCacheKey = Null
    /\ nodes = <<>>
    /\ InFlight = 0

\* C19: a confirmed clearGraph empties the two collections, sends no
\* request and leaves the active cache key as it was
C19_ClearIsLocal ==
    [][clearGraph(TRUE)
          => /\ nodes' = <<>>
             /\ edges' = <<>>
             /\ UNCHANGED <<currentCacheKey, inflight>>
             /\ ~out'.fetch]_vars

\* C19 witness: a displayed graph has been cleared and its key is still the
\* active one
C19_Witness ==
    /\ out.alert = "clearConfirmed"
    /\ Len(loaded.nodes) > 0
    /\ nodes = <<>>
    /\ edges = <<>>
    /\ currentCacheKey = Key1

\* C20: loads are neither queued nor cancelled: a load can be requested
\* while another is under way, and every successful answer is applied when
\* it arrives, whatever else is still under way, which stays so; what the
\* page displays is the document of the answer that arrived last
C20_LastArrivalWins ==
    [][/\ \A r \in Requests, a \in Answers, doc \in DocsBackend :
             ~Failure(a) /\ LoadAnswered(r, a, doc)
                => /\ nodes' = LoadStore(doc, now).nodes
                   /\ edges' = LoadStore(doc, now).edges
                   /\ inflight' = [inflight EXCEPT ![r] = @ - 1]
       /\ refreshGraph /\ Truthy(currentCacheKey)
             => inflight' = [inflight EXCEPT !["refreshLoad"] = @ + 1]]_vars

\* C20 witness: two loads were under way; the answer to one arrived, then
\* the answer to the other with another document, which is displayed now
C20_Witness ==
    /\ hist.op = "load"
    /\ hist.prevOp = "load"
    /\ Len(hist.pre.edges) # Len(loaded.edges)
    /\ nodes = loaded.nodes
    /\ edges = loaded.edges
    /\ InFlight = 0


-----------------------------------------------------------------------------
\* Properties of the saved document and of the colors

\* the element carries the saved original color of the highlight
CarriesShadow(el) == "orig" \in DOMAIN el /\ el.orig # NoOrig

\* C21: the document saveGraph sends never contains the highlight shadow:
\* also while a focus is active, no node and no edge of the payload carries
\* the saved-original-color field
C21_PayloadHasNoShadow ==
    out.body # NoBody =>
        /\ \A i \in DOMAIN out.body.nodes : ~CarriesShadow(out.body.nodes[i])
        /\ \A i \in DOMAIN out.body.edges : ~CarriesShadow(out.body.edges[i])

\* C21 witness: a document was sent while a focus is active and a node and
\* an edge of the store carry the shadow
C21_Witness ==
    /\ out.body # NoBody
    /\ Len(out.body.nodes) > 0
    /\ Truthy(highlightedNode)
    /\ \E i \in DOMAIN nodes : CarriesShadow(nodes[i])
    /\ \E i \in DOMAIN edges : CarriesShadow(edges[i])


\* C24: an exception thrown by a handler (a handler of a renderer event, a
\* menu action, the handler of a button, the asynchronous ones included)
\* is caught at the place the handler is called from and goes no further:
\* no handler leaves an exception uncaught
C24_NoUncaughtException == ~out.threw

-----------------------------------------------------------------------------
\* Properties of the menu actions that add a node or turn an edge

\* C28: confirmCreateNode adds exactly one new node in every case: launched
\* from a source node with the connecting-new-node flag set it also adds
\* exactly one edge, from the source to the new node; with no source node
\* it adds the node alone, whether or not the add-node flag is set
C28_ConfirmAddsOneNode ==
    [][ConfirmCreateNode
          => /\ Len(nodes') = Len(nodes) + 1
             /\ SubSeq(nodes', 1, Len(nodes)) = nodes
             /\ ~DsHas(nodes, nodes'[Len(nodes')].id)
             /\ IF Truthy(ui.contextMenuNode) /\ ui.isConnectingNewNode
                THEN /\ Len(edges') = Len(edges) + 1
                     /\ SubSeq(edges', 1, Len(edges)) = edges
                     /\ edges'[Len(edges')].from = ui.contextMenuNode
                     /\ edges'[Len(edges')].to = nodes'[Len(nodes')].id
                ELSE edges' = edges]_vars

\* C29: reverseEdgeDirection on an edge e of the store swaps e's from and
\* to and keeps e's id and label; the number of edges is unchanged, and
\* applying it a second time gives back the original from and to
C29_ReverseSwapsEnds ==
    [][(ReverseEdgeDirection /\ DsHas(edges, ui.contextMenuEdge))
          => LET e == ui.contextMenuEdge
                 twice == reverseEdgeDirection(reverseEdgeDirection(Store))
             IN  /\ DsHas(edges', e)
                 /\ DsGet(edges', e).from = DsGet(edges, e).to
                 /\ DsGet(edges', e).to = DsGet(edges, e).from
                 /\ DsGet(edges', e).label = DsGet(edges, e).label
                 /\ Len(edges') = Len(edges)
                 /\ Len(twice.edges) = Len(edges)
                 /\ DsHas(twice.edges, e)
                 /\ DsGet(twice.edges, e).from = DsGet(edges, e).from
                 /\ DsGet(twice.edges, e).to = DsGet(edges, e).to
                 /\ DsGet(twice.edges, e).label = DsGet(edges, e).label]_vars

\* C29 witness: a labelled edge of the loaded document is in the store
\* with its ends swapped
C29_Witness ==
    \E i \in DOMAIN loaded.edges :
        /\ loaded.edges[i].from # loaded.edges[i].to
        /\ IsString(loaded.edges[i].label)
        /\ DsHas(edges, loaded.edges[i].id)
        /\ DsGet(edges, loaded.edges[i].id).from = loaded.edges[i].to
        /\ DsGet(edges, loaded.edges[i].id).to = loaded.edges[i].from
        /\ DsGet(edges, loaded.edges[i].id).label = loaded.edges[i].label

\* C30: after addNodeMode has been entered, a click on the blank canvas
\* adds a node to the store, as the prompt of the mode announces
C30_CanvasClickAddsNode ==
    [][(ui.addingNode /\ Click(OnCanvas)) => Len(nodes') = Len(nodes) + 1]_vars

-----------------------------------------------------------------------------
\* Properties of the bindings, the focus id and the menu targets

\* C31: once a load has completed, each event of the renderer runs its
\* handler of GraphUI exactly once, after the first load of the page and
\* after every refreshGraph, so that one click on a node that is not the
\* focus leaves that node focused
C31_HandlersRunOnce ==
    /\ hasNetwork => bindings = 1
    /\ (hist.op = "click" /\ hist.hlBefore # hist.arg /\ ~out.threw)
          => highlightedNode = hist.arg

\* the color of the element before any focus dimmed it
Undimmed(el) == IF CarriesShadow(el) THEN el.orig ELSE el.color

\* C32: when saveGraph sends the document while a focus is active, the
\* color of every node and edge of the document is the color the element
\* had before the focus: no dimmed color is saved
C32_SavedColorsUndimmed ==
    [][(saveGraph /\ out'.body # NoBody)
          => /\ Len(out'.body.nodes) = Len(nodes)
             /\ Len(out'.body.edges) = Len(edges)
             /\ \A i \in DOMAIN nodes :
                   out'.body.nodes[i].color = Undimmed(nodes[i])
             /\ \A i \in DOMAIN edges :
                   out'.body.edges[i].color = Undimmed(edges[i])]_vars

\* C33: highlightNodeAndConnections(n) completes without throwing in every
\* state of the store the editor reaches, also when the store holds nodes
\* or edges with no color field; it never dims the nodes and leaves the
\* edges as they were
C33_FocusNeverThrows ==
    hasNetwork =>
        \A n \in DsIds(nodes) :
            ~highlightNodeAndConnections(Store, hasNetwork, n).threw

\* C34: in every reachable state the focus id is null or the id of a node
\* of the store; deleting the focused node through the node menu, or a
\* successful deleteGraph during a focus, leaves no focus id behind
C34_FocusIsInStore == highlightedNode = Null \/ DsHas(nodes, highlightedNode)

\* C35: when a load or a refresh has completed and the store has been
\* rebuilt from the document of the backend, no focus is active: the focus
\* id is null, so the first click on a node of the reloaded graph focuses it
C35_NoFocusAfterLoad == hist.op = "load" => highlightedNode = Null

\* C36: when a menu action or a menu display reads the remembered menu
\* target, the target is null or the id of an element of the store: after
\* deleteSelectedNode or deleteSelectedEdge the remembered target does not
\* name the deleted element, and showCreateNodeInput and confirmCreateNode
\* never read the id of a deleted node
C36_MenuTargetInStore ==
    [][/\ (ShowCreateNodeInput \/ ConfirmCreateNode)
             => (ui.contextMenuNode = Null \/ DsHas(nodes, ui.contextMenuNode))
       /\ DeleteSelectedNode
             => (ui'.contextMenuNode = Null \/ DsHas(nodes', ui'.contextMenuNode))
       /\ DeleteSelectedEdge
             => (ui'.contextMenuEdge = Null \/ DsHas(edges', ui'.contextMenuEdge))]_vars

\* C37: reverseEdgeDirection changes only the from and the to of the edge:
\* its color, width, arrows and title are after the reversal what they
\* were before it, and no other edge and no node is changed
C37_ReverseKeepsStyle ==
    [][(ReverseEdgeDirection /\ DsHas(edges, ui.contextMenuEdge))
          => LET e == ui.contextMenuEdge
             IN  /\ DsHas(edges', e)
                 /\ DsGet(edges', e).color = DsGet(edges, e).color
                 /\ DsGet(edges', e).width = DsGet(edges, e).width
                 /\ DsGet(edges', e).arrows = DsGet(edges, e).arrows
                 /\ DsGet(edges', e).title = DsGet(edges, e).title
                 /\ \A o \in DsIds(edges) \ {e} :
                       DsHas(edges', o) /\ DsGet(edges', o) = DsGet(edges, o)
                 /\ nodes' = nodes]_vars

\* C38: once deleteGraph has succeeded, the active key stays null and the
\* collections stay empty until the user starts a new load: the answer to
\* a load or refresh that was in flight when the delete was issued restores
\* neither the key nor the graph
C38_DeletedStaysDeleted ==
    [][(hasNetwork /\ currentCacheKey = Null /\ nodes = <<>> /\ edges = <<>>)
          => (currentCacheKey' = Null /\ nodes' = <<>> /\ edges' = <<>>)]_vars

\* the menus and inputs of the page
Menus == {"node", "edge", "create", "editNode", "editEdge"}

\* C39: in every reachable state at most one menu (node menu, edge menu,
\* create-node input, edit-node-label input, edit-edge-label input) is
\* displayed, and the menu-visible flag is true if and only if one is
\* displayed; hiding clears the flag and any pending hold timer
C39_OneMenuAndFlag ==
    /\ ui.shown \subseteq Menus
    /\ Cardinality(ui.shown) <= 1
    /\ ui.isMenuVisible <=> ui.shown # {}
    /\ LET h == hideAllContextMenus(Store)
       IN  /\ h.ui.shown = {}
           /\ ~h.ui.isMenuVisible
           /\ ~h.ui.menuShowTimer.set
           /\ ui.menuShowTimer \notin h.ui.timers

\* C39 witness: the edit-node-label input is displayed alone with the flag
\* set, shown by a double click that came while the timer of a hold was
\* pending; the hiding that precedes the show has cleared the timer
C39_Witness ==
    /\ ui.shown = {"editNode"}
    /\ ui.isMenuVisible
    /\ hist.op = "doubleClick"
    /\ hist.prevOp = "hold"
    /\ ui.timers = {}
    /\ ~ui.menuShowTimer.set

\* C40: in the hover-enabled variant a focus set by a click stays until
\* the user clicks again: hoverNode and blurNode on any node neither clear
\* it nor change which elements are dimmed, and a hover followed by a click
\* on the same node leaves that node focused
C40_HoverKeepsClickFocus ==
    [][/\ (((\E n \in DsIds(nodes) : HoverNode(n)) \/ BlurNode)
              /\ hist.focusBy = "click")
             => (highlightedNode' = highlightedNode /\ itemOpacity' = itemOpacity)
       /\ \A n \in DsIds(nodes) :
             (ClickV(OnNode(n)) /\ hist.op = "hover" /\ hist.arg = n /\ bindings = 1)
                 => highlightedNode' = n]_vars

=============================================================================
